---------------------------- MODULE Spec2Model ----------------------------
(***************************************************************************)
(* A model of pygit.py: the object store (hash_object, find_object,        *)
(* read_object), the index reader (read_index) and the tree reader         *)
(* (read_tree).                                                            *)
(*                                                                         *)
(* bytes and str values are sequences of integers (byte values, code      *)
(* points).  Python's slices, find, split, int, format and hex are        *)
(* operators that compute what the library computes; hashlib.sha1 and     *)
(* zlib.compress are tables of the library's real outputs on every input  *)
(* the model feeds them.  A call's outcome is a record: kind "ok" with    *)
(* the returned value in a and b, or the kind of the exception raised,    *)
(* its message tag in msg and the number it carries in n.                 *)
(***************************************************************************)
EXTENDS Integers, Sequences, FiniteSets, TLC

VARIABLES
    dirs,       \* the shard directories that exist under .git/objects
    files,      \* object files: <<shard, name>> -> the bytes stored there
    ret,        \* the last call made on the object store, with its outcome
    tick,       \* parity of the number of calls made on the object store
    pc,         \* concurrent run: each process's position in its code
    job,        \* concurrent run: each process's arguments and locals
    seen,       \* concurrent run: the outcome of the reader's last read
    indexFile,  \* the bytes of .git/index, or Absent
    indexRet,   \* the outcome of the last read_index()
    treeData,   \* what the payload handed to read_tree(data=...) is made of
    treeRet     \* the outcome of the last read_tree(data=...)

vars == <<dirs, files, ret, tick, pc, job, seen, indexFile, indexRet, treeData, treeRet>>
storeVars == <<dirs, files, ret, tick>>
concVars == <<pc, job, seen>>
indexVars == <<indexFile, indexRet>>
treeVars == <<treeData, treeRet>>

---------------------------------------------------------------------------
(* Bounds of the model. *)

\* find_object and read_object are called with the prefixes of lengths
\* 2..MaxPrefixLen of every digest, and with the whole digest.
MaxPrefixLen == 5

---------------------------------------------------------------------------
(* Python's built-in operations on bytes and str. *)

Min(a, b) == IF a < b THEN a ELSE b
Max(a, b) == IF a > b THEN a ELSE b

\* s[lo:hi] for 0 <= lo, 0 <= hi: a slice is clipped to the sequence.
PySlice(s, lo, hi) == SubSeq(s, lo + 1, Min(hi, Len(s)))

\* s[lo:-k] for k > 0.
PySliceNeg(s, lo, k) == PySlice(s, lo, Max(Len(s) - k, 0))

\* s[-k:] for k > 0.
PyTail(s, k) == PySlice(s, Max(Len(s) - k, 0), Len(s))

\* name.startswith(rest)
StartsWith(name, rest) == Len(rest) <= Len(name) /\ SubSeq(name, 1, Len(rest)) = rest

\* s.find(b, i) for a single byte b: the 0-based index of the first b at or
\* after i, or -1.
RECURSIVE Find(_, _, _)
Find(s, b, i) ==
    IF i >= Len(s) THEN -1
    ELSE IF s[i + 1] = b THEN i
    ELSE Find(s, b, i + 1)

\* str(n) for n >= 0, as "{}".format(n) writes it.
RECURSIVE DecStr(_)
DecStr(n) == IF n < 10 THEN <<48 + n>> ELSE DecStr(n \div 10) \o <<48 + (n % 10)>>

HexChar(v) == IF v < 10 THEN 48 + v ELSE 87 + v

\* bytes.hex(): two lower-case hex characters per byte.
RECURSIVE HexStr(_)
HexStr(b) ==
    IF b = <<>> THEN <<>>
    ELSE <<HexChar(Head(b) \div 16), HexChar(Head(b) % 16)>> \o HexStr(Tail(b))

\* The ASCII characters str.split() treats as white space.
IsSpace(c) == c \in {9, 10, 11, 12, 13, 28, 29, 30, 31, 32}

\* str.split(): the maximal runs of non-space characters, in order.
RECURSIVE SplitAcc(_, _, _, _)
SplitAcc(s, i, cur, toks) ==
    IF i > Len(s) THEN (IF cur = <<>> THEN toks ELSE Append(toks, cur))
    ELSE IF IsSpace(s[i])
         THEN SplitAcc(s, i + 1, <<>>, IF cur = <<>> THEN toks ELSE Append(toks, cur))
         ELSE SplitAcc(s, i + 1, Append(cur, s[i]), toks)

PySplit(s) == SplitAcc(s, 1, <<>>, <<>>)

DigitVal(c) ==
    IF c \in 48..57 THEN c - 48
    ELSE IF c \in 97..122 THEN c - 87
    ELSE IF c \in 65..90 THEN c - 55
    ELSE 99

\* int(s, base) accepts s: the model's inputs hold digits only (no sign, no
\* underscore, no base prefix), and anything else raises ValueError.
IsInt(s, base) == Len(s) > 0 /\ \A i \in 1..Len(s) : DigitVal(s[i]) < base

RECURSIVE IntVal(_, _)
IntVal(s, base) ==
    IF s = <<>> THEN 0
    ELSE IntVal(SubSeq(s, 1, Len(s) - 1), base) * base + DigitVal(s[Len(s)])

\* bytes.decode(): the model's inputs are ASCII, which decodes to itself;
\* a byte >= 128 is outside the model's inputs.
Decode(b) == CASE \A i \in 1..Len(b) : b[i] < 128 -> b

\* str.encode() of an ASCII string.
Encode(s) == CASE \A i \in 1..Len(s) : s[i] < 128 -> s

\* struct.unpack('!L', b): a big-endian unsigned 32-bit integer.
RECURSIVE BigEndian(_)
BigEndian(b) ==
    IF b = <<>> THEN 0
    ELSE BigEndian(SubSeq(b, 1, Len(b) - 1)) * 256 + b[Len(b)]

---------------------------------------------------------------------------
(* Outcomes of a call. *)

Ok(a, b) == [kind |-> "ok", msg |-> "", n |-> 0, a |-> a, b |-> b]
Raise(kind, msg, n) == [kind |-> kind, msg |-> msg, n |-> n, a |-> <<>>, b |-> <<>>]
NoCall == [kind |-> "none", msg |-> "", n |-> 0, a |-> <<>>, b |-> <<>>]

---------------------------------------------------------------------------
(* The objects of the model. *)

Blob == <<98, 108, 111, 98>>
Tree == <<116, 114, 101, 101>>
Commit == <<99, 111, 109, 109, 105, 116>>
Types == {Blob, Tree, Commit}

\* b"", b"hello", b"A\x00x" and b"\x0b\x00".  The digests of blob b"hello"
\* (b6fc4c62...), tree b"A\x00x" (b6fc468e...) and blob b"\x0b\x00"
\* (b6fe70ce...) fall into one shard and share prefixes of 5 and 3 characters.
Payloads == {<<>>, <<104, 101, 108, 108, 111>>, <<65, 0, 120>>, <<11, 0>>}

\* hashlib.sha1(...).digest() on the framed bytes of every object of the model.
Sha1Objects == {
    \* blob b'': e69de29bb2d1d6434b8b29ae775ad8c2e48c5391
    <<<<98, 108, 111, 98, 32, 48, 0>>,
      <<230, 157, 226, 155, 178, 209, 214, 67, 75, 139, 41, 174, 119, 90, 216, 194, 228, 140, 83, 145>>>>,
    \* blob b'hello': b6fc4c620b67d95f953a5c1c1230aaab5db5a1b0
    <<<<98, 108, 111, 98, 32, 53, 0, 104, 101, 108, 108, 111>>,
      <<182, 252, 76, 98, 11, 103, 217, 95, 149, 58, 92, 28, 18, 48, 170, 171, 93, 181, 161, 176>>>>,
    \* blob b'A\x00x': 4dadb5df9de89421515ed9752839314f2a55e7e3
    <<<<98, 108, 111, 98, 32, 51, 0, 65, 0, 120>>,
      <<77, 173, 181, 223, 157, 232, 148, 33, 81, 94, 217, 117, 40, 57, 49, 79, 42, 85, 231, 227>>>>,
    \* blob b'\x0b\x00': b6fe70ce2d262a583d3288fd442b46bf4ddef90e
    <<<<98, 108, 111, 98, 32, 50, 0, 11, 0>>,
      <<182, 254, 112, 206, 45, 38, 42, 88, 61, 50, 136, 253, 68, 43, 70, 191, 77, 222, 249, 14>>>>,
    \* tree b'': 4b825dc642cb6eb9a060e54bf8d69288fbee4904
    <<<<116, 114, 101, 101, 32, 48, 0>>,
      <<75, 130, 93, 198, 66, 203, 110, 185, 160, 96, 229, 75, 248, 214, 146, 136, 251, 238, 73, 4>>>>,
    \* tree b'hello': cbb918f93e0b6cdc9632f3ce0f94805cd7c3b498
    <<<<116, 114, 101, 101, 32, 53, 0, 104, 101, 108, 108, 111>>,
      <<203, 185, 24, 249, 62, 11, 108, 220, 150, 50, 243, 206, 15, 148, 128, 92, 215, 195, 180, 152>>>>,
    \* tree b'A\x00x': b6fc468e0b38ed2f62f558b60fb416909d05abe6
    <<<<116, 114, 101, 101, 32, 51, 0, 65, 0, 120>>,
      <<182, 252, 70, 142, 11, 56, 237, 47, 98, 245, 88, 182, 15, 180, 22, 144, 157, 5, 171, 230>>>>,
    \* tree b'\x0b\x00': 43915629ab6641dd4644cbd234b3daf2c9e5c574
    <<<<116, 114, 101, 101, 32, 50, 0, 11, 0>>,
      <<67, 145, 86, 41, 171, 102, 65, 221, 70, 68, 203, 210, 52, 179, 218, 242, 201, 229, 197, 116>>>>,
    \* commit b'': dcf5b16e76cce7425d0beaef62d79a7d10fce1f5
    <<<<99, 111, 109, 109, 105, 116, 32, 48, 0>>,
      <<220, 245, 177, 110, 118, 204, 231, 66, 93, 11, 234, 239, 98, 215, 154, 125, 16, 252, 225, 245>>>>,
    \* commit b'hello': 34f5fae8d15abafca1ab4a596faab46b4583d8db
    <<<<99, 111, 109, 109, 105, 116, 32, 53, 0, 104, 101, 108, 108, 111>>,
      <<52, 245, 250, 232, 209, 90, 186, 252, 161, 171, 74, 89, 111, 170, 180, 107, 69, 131, 216, 219>>>>,
    \* commit b'A\x00x': 6eae42249168a79ea19908cd5a09e37c81fdea26
    <<<<99, 111, 109, 109, 105, 116, 32, 51, 0, 65, 0, 120>>,
      <<110, 174, 66, 36, 145, 104, 167, 158, 161, 153, 8, 205, 90, 9, 227, 124, 129, 253, 234, 38>>>>,
    \* commit b'\x0b\x00': 605e3440eabc29e274fbea30a6f5e15d8359133b
    <<<<99, 111, 109, 109, 105, 116, 32, 50, 0, 11, 0>>,
      <<96, 94, 52, 64, 234, 188, 41, 226, 116, 251, 234, 48, 166, 245, 225, 93, 131, 89, 19, 59>>>>
}

\* zlib.compress(...) on the framed bytes of every object of the model.  No
\* proper prefix of any of these streams decompresses (zlib.error).
ZlibTable == {
    <<<<98, 108, 111, 98, 32, 48, 0>>,
      <<120, 156, 75, 202, 201, 79, 82, 48, 96, 0, 0, 9, 176, 1, 240>>>>,
    <<<<98, 108, 111, 98, 32, 53, 0, 104, 101, 108, 108, 111>>,
      <<120, 156, 75, 202, 201, 79, 82, 48, 101, 200, 72, 205, 201, 201, 7, 0, 25, 170, 4, 9>>>>,
    <<<<98, 108, 111, 98, 32, 51, 0, 65, 0, 120>>,
      <<120, 156, 75, 202, 201, 79, 82, 48, 102, 112, 100, 168, 0, 0, 16, 202, 2, 172>>>>,
    <<<<98, 108, 111, 98, 32, 50, 0, 11, 0>>,
      <<120, 156, 75, 202, 201, 79, 82, 48, 98, 224, 102, 0, 0, 13, 174, 1, 253>>>>,
    <<<<116, 114, 101, 101, 32, 48, 0>>,
      <<120, 156, 43, 41, 74, 77, 85, 48, 96, 0, 0, 10, 44, 2, 1>>>>,
    <<<<116, 114, 101, 101, 32, 53, 0, 104, 101, 108, 108, 111>>,
      <<120, 156, 43, 41, 74, 77, 85, 48, 101, 200, 72, 205, 201, 201, 7, 0, 26, 123, 4, 26>>>>,
    <<<<116, 114, 101, 101, 32, 51, 0, 65, 0, 120>>,
      <<120, 156, 43, 41, 74, 77, 85, 48, 102, 112, 100, 168, 0, 0, 17, 121, 2, 189>>>>,
    <<<<116, 114, 101, 101, 32, 50, 0, 11, 0>>,
      <<120, 156, 43, 41, 74, 77, 85, 48, 98, 224, 102, 0, 0, 14, 76, 2, 14>>>>,
    <<<<99, 111, 109, 109, 105, 116, 32, 48, 0>>,
      <<120, 156, 75, 206, 207, 205, 205, 44, 81, 48, 96, 0, 0, 17, 34, 2, 218>>>>,
    <<<<99, 111, 109, 109, 105, 116, 32, 53, 0, 104, 101, 108, 108, 111>>,
      <<120, 156, 75, 206, 207, 205, 205, 44, 81, 48, 101, 200, 72, 205, 201, 201, 7, 0, 37, 174, 4, 243>>>>,
    <<<<99, 111, 109, 109, 105, 116, 32, 51, 0, 65, 0, 120>>,
      <<120, 156, 75, 206, 207, 205, 205, 44, 81, 48, 102, 112, 100, 168, 0, 0, 26, 250, 3, 150>>>>,
    <<<<99, 111, 109, 109, 105, 116, 32, 50, 0, 11, 0>>,
      <<120, 156, 75, 206, 207, 205, 205, 44, 81, 48, 98, 224, 102, 0, 0, 22, 244, 2, 231>>>>
}

\* hashlib.sha1(...).digest() on data[:-20] of every index file of the model.
Sha1Index == {
    <<<<>>,
      <<218, 57, 163, 238, 94, 107, 75, 13, 50, 85, 191, 239, 149, 96, 24, 144, 175, 216, 7, 9>>>>,
    <<<<68, 73, 82, 67, 0, 0, 0, 2, 0, 0, 0>>,
      <<40, 56, 185, 24, 21, 145, 87, 177, 75, 200, 230, 236, 156, 72, 93, 127, 112, 103, 37, 143>>>>,
    <<<<68, 73, 82, 67, 0, 0, 0, 2, 0, 0, 0, 0>>,
      <<57, 216, 144, 19, 158, 229, 53, 108, 126, 245, 114, 33, 108, 235, 205, 39, 170, 65, 249, 223>>>>,
    <<<<68, 73, 82, 67, 0, 0, 0, 2, 0, 0, 0, 1>>,
      <<123, 99, 250, 56, 59, 141, 212, 112, 207, 134, 83, 129, 43, 255, 43, 27, 177, 157, 50, 238>>>>,
    <<<<68, 73, 82, 67, 0, 0, 0, 3, 0, 0, 0, 0>>,
      <<220, 50, 220, 129, 137, 176, 228, 142, 194, 221, 209, 151, 102, 81, 28, 154, 145, 188, 125, 199>>>>,
    <<<<68, 73, 82, 88, 0, 0, 0, 2, 0, 0, 0, 0>>,
      <<192, 138, 164, 232, 232, 155, 90, 13, 235, 211, 245, 152, 157, 176, 170, 242, 11, 18, 147, 69>>>>,
    <<<<68, 73, 82, 67, 0, 0, 0, 2, 0, 0, 0, 0, 0, 0, 0, 0, 0, 0, 0, 0>>,
      <<116, 129, 144, 75, 51, 114, 245, 59, 64, 100, 249, 130, 222, 61, 151, 73, 120, 43, 218, 127>>>>,
    <<<<68, 73, 82, 67, 0, 0, 0, 2, 0, 0, 0, 0, 0, 0, 0, 1, 0, 0, 0, 2, 0, 0, 0, 3, 0, 0, 0, 4, 0, 0, 0, 5, 0, 0, 0, 6, 0, 0, 129, 164, 0, 0, 3, 232, 0, 0, 3, 232, 0, 0, 0, 5, 182, 252, 76, 98, 11, 103, 217, 95, 149, 58, 92, 28, 18, 48, 170, 171, 93, 181, 161, 176, 0, 1, 97, 0>>,
      <<78, 252, 100, 150, 21, 213, 238, 31, 61, 25, 101, 186, 213, 18, 48, 88, 218, 23, 198, 220>>>>,
    <<<<68, 73, 82, 67, 0, 0, 0, 2, 0, 0, 0, 1, 0, 0, 0, 0, 0, 0, 0, 2, 0, 0, 0, 3, 0, 0, 0, 4, 0, 0, 0, 5, 0, 0, 0, 6, 0, 0, 129, 164, 0, 0, 3, 232, 0, 0, 3, 232, 0, 0, 0, 5, 182, 252, 76, 98, 11, 103, 217, 95, 149, 58, 92, 28, 18, 48, 170, 171, 93, 181, 161, 176, 0, 1, 97, 0>>,
      <<252, 70, 118, 159, 56, 210, 179, 65, 163, 98, 57, 155, 87, 135, 222, 93, 217, 101, 237, 182>>>>,
    <<<<68, 73, 82, 67, 0, 0, 0, 2, 0, 0, 0, 1, 0, 0, 0, 1, 0, 0, 0, 2, 0, 0, 0, 3, 0, 0, 0, 4, 0, 0, 0, 5, 0, 0, 0, 6, 0, 0, 129, 164, 0, 0, 3, 232, 0, 0, 3, 232, 0, 0, 0, 5, 182, 252, 76, 98, 11, 103, 217, 94, 149, 58, 92, 28, 18, 48, 170, 171, 93, 181, 161, 176, 0, 1, 97, 0>>,
      <<110, 45, 65, 191, 119, 40, 58, 26, 225, 91, 251, 46, 53, 115, 52, 135, 81, 240, 219, 15>>>>,
    <<<<68, 73, 82, 67, 0, 0, 0, 2, 0, 0, 0, 1, 0, 0, 0, 1, 0, 0, 0, 2, 0, 0, 0, 3, 0, 0, 0, 4, 0, 0, 0, 5, 0, 0, 0, 6, 0, 0, 129, 164, 0, 0, 3, 232, 0, 0, 3, 232, 0, 0, 0, 5, 182, 252, 76, 98, 11, 103, 217, 95, 149, 58, 92, 28, 18, 48, 170, 171, 93, 181, 161, 176, 0, 1, 96, 0>>,
      <<83, 127, 220, 39, 34, 90, 24, 144, 250, 161, 26, 15, 145, 225, 152, 226, 55, 46, 131, 200>>>>,
    <<<<68, 73, 82, 67, 0, 0, 0, 2, 0, 0, 0, 1, 0, 0, 0, 1, 0, 0, 0, 2, 0, 0, 0, 3, 0, 0, 0, 4, 0, 0, 0, 5, 0, 0, 0, 6, 0, 0, 129, 164, 0, 0, 3, 232, 0, 0, 3, 232, 0, 0, 0, 5, 182, 252, 76, 98, 11, 103, 217, 95, 149, 58, 92, 28, 18, 48, 170, 171, 93, 181, 161, 176, 0, 1, 97, 0>>,
      <<243, 61, 144, 110, 126, 187, 93, 45, 189, 126, 29, 206, 170, 102, 186, 215, 137, 102, 9, 59>>>>,
    <<<<68, 73, 82, 67, 0, 0, 0, 2, 0, 0, 0, 1, 0, 0, 0, 1, 0, 0, 0, 2, 0, 0, 0, 3, 0, 0, 0, 4, 0, 0, 0, 5, 0, 0, 0, 6, 0, 0, 129, 164, 0, 0, 3, 232, 0, 0, 3, 232, 0, 0, 0, 5, 182, 252, 76, 98, 11, 103, 217, 95, 149, 58, 92, 28, 18, 48, 170, 171, 93, 181, 161, 176, 0, 1, 97, 1>>,
      <<55, 70, 4, 154, 147, 102, 64, 68, 109, 146, 88, 207, 212, 32, 49, 114, 177, 223, 159, 27>>>>,
    <<<<68, 73, 82, 67, 0, 0, 0, 2, 0, 0, 0, 2, 0, 0, 0, 1, 0, 0, 0, 2, 0, 0, 0, 3, 0, 0, 0, 4, 0, 0, 0, 5, 0, 0, 0, 6, 0, 0, 129, 164, 0, 0, 3, 232, 0, 0, 3, 232, 0, 0, 0, 5, 182, 252, 76, 98, 11, 103, 217, 95, 149, 58, 92, 28, 18, 48, 170, 171, 93, 181, 161, 176, 0, 1, 97, 0>>,
      <<245, 217, 161, 117, 82, 81, 189, 100, 152, 97, 25, 140, 122, 139, 43, 77, 230, 193, 2, 137>>>>,
    <<<<68, 73, 82, 67, 0, 0, 0, 3, 0, 0, 0, 1, 0, 0, 0, 1, 0, 0, 0, 2, 0, 0, 0, 3, 0, 0, 0, 4, 0, 0, 0, 5, 0, 0, 0, 6, 0, 0, 129, 164, 0, 0, 3, 232, 0, 0, 3, 232, 0, 0, 0, 5, 182, 252, 76, 98, 11, 103, 217, 95, 149, 58, 92, 28, 18, 48, 170, 171, 93, 181, 161, 176, 0, 1, 97, 0>>,
      <<117, 169, 186, 182, 184, 147, 5, 91, 56, 224, 167, 129, 12, 65, 198, 223, 13, 41, 238, 74>>>>,
    <<<<68, 73, 82, 88, 0, 0, 0, 2, 0, 0, 0, 1, 0, 0, 0, 1, 0, 0, 0, 2, 0, 0, 0, 3, 0, 0, 0, 4, 0, 0, 0, 5, 0, 0, 0, 6, 0, 0, 129, 164, 0, 0, 3, 232, 0, 0, 3, 232, 0, 0, 0, 5, 182, 252, 76, 98, 11, 103, 217, 95, 149, 58, 92, 28, 18, 48, 170, 171, 93, 181, 161, 176, 0, 1, 97, 0>>,
      <<126, 186, 27, 26, 74, 103, 138, 237, 89, 2, 253, 63, 166, 229, 34, 167, 128, 78, 152, 32>>>>,
    <<<<68, 73, 82, 67, 0, 0, 0, 2, 0, 0, 0, 0, 0, 0, 0, 7, 0, 0, 0, 0, 0, 0, 0, 7, 0, 0, 0, 0, 0, 0, 0, 5, 0, 0, 0, 9, 0, 0, 129, 237, 0, 0, 0, 0, 0, 0, 0, 0, 0, 0, 0, 0, 230, 157, 226, 155, 178, 209, 214, 67, 75, 139, 41, 174, 119, 90, 216, 194, 228, 140, 83, 145, 0, 6, 97, 98, 46, 116, 120, 116, 0, 0, 0, 0>>,
      <<51, 221, 96, 1, 200, 138, 1, 222, 177, 161, 51, 29, 16, 60, 0, 130, 248, 118, 209, 107>>>>,
    <<<<68, 73, 82, 67, 0, 0, 0, 2, 0, 0, 0, 1, 0, 0, 0, 6, 0, 0, 0, 0, 0, 0, 0, 7, 0, 0, 0, 0, 0, 0, 0, 5, 0, 0, 0, 9, 0, 0, 129, 237, 0, 0, 0, 0, 0, 0, 0, 0, 0, 0, 0, 0, 230, 157, 226, 155, 178, 209, 214, 67, 75, 139, 41, 174, 119, 90, 216, 194, 228, 140, 83, 145, 0, 6, 97, 98, 46, 116, 120, 116, 0, 0, 0, 0>>,
      <<199, 11, 48, 125, 80, 205, 163, 56, 20, 146, 139, 175, 161, 59, 231, 112, 242, 14, 79, 79>>>>,
    <<<<68, 73, 82, 67, 0, 0, 0, 2, 0, 0, 0, 1, 0, 0, 0, 7, 0, 0, 0, 0, 0, 0, 0, 7, 0, 0, 0, 0, 0, 0, 0, 5, 0, 0, 0, 9, 0, 0, 129, 237, 0, 0, 0, 0, 0, 0, 0, 0, 0, 0, 0, 0, 230, 157, 226, 155, 178, 209, 214, 66, 75, 139, 41, 174, 119, 90, 216, 194, 228, 140, 83, 145, 0, 6, 97, 98, 46, 116, 120, 116, 0, 0, 0, 0>>,
      <<212, 166, 25, 225, 194, 104, 56, 118, 51, 62, 254, 52, 135, 128, 117, 11, 162, 61, 58, 30>>>>,
    <<<<68, 73, 82, 67, 0, 0, 0, 2, 0, 0, 0, 1, 0, 0, 0, 7, 0, 0, 0, 0, 0, 0, 0, 7, 0, 0, 0, 0, 0, 0, 0, 5, 0, 0, 0, 9, 0, 0, 129, 237, 0, 0, 0, 0, 0, 0, 0, 0, 0, 0, 0, 0, 230, 157, 226, 155, 178, 209, 214, 67, 75, 139, 41, 174, 119, 90, 216, 194, 228, 140, 83, 145, 0, 6, 96, 98, 46, 116, 120, 116, 0, 0, 0, 0>>,
      <<174, 231, 171, 11, 31, 206, 228, 85, 154, 3, 198, 2, 232, 170, 29, 12, 0, 61, 38, 206>>>>,
    <<<<68, 73, 82, 67, 0, 0, 0, 2, 0, 0, 0, 1, 0, 0, 0, 7, 0, 0, 0, 0, 0, 0, 0, 7, 0, 0, 0, 0, 0, 0, 0, 5, 0, 0, 0, 9, 0, 0, 129, 237, 0, 0, 0, 0, 0, 0, 0, 0, 0, 0, 0, 0, 230, 157, 226, 155, 178, 209, 214, 67, 75, 139, 41, 174, 119, 90, 216, 194, 228, 140, 83, 145, 0, 6, 97, 98, 46, 116, 120, 116, 0, 0, 0, 0>>,
      <<216, 235, 48, 137, 42, 45, 201, 21, 111, 136, 122, 212, 231, 38, 162, 186, 54, 1, 121, 8>>>>,
    <<<<68, 73, 82, 67, 0, 0, 0, 2, 0, 0, 0, 1, 0, 0, 0, 7, 0, 0, 0, 0, 0, 0, 0, 7, 0, 0, 0, 0, 0, 0, 0, 5, 0, 0, 0, 9, 0, 0, 129, 237, 0, 0, 0, 0, 0, 0, 0, 0, 0, 0, 0, 0, 230, 157, 226, 155, 178, 209, 214, 67, 75, 139, 41, 174, 119, 90, 216, 194, 228, 140, 83, 145, 0, 6, 97, 99, 46, 116, 120, 116, 0, 0, 0, 0>>,
      <<171, 108, 192, 121, 72, 213, 127, 199, 137, 131, 69, 184, 122, 165, 128, 143, 56, 79, 12, 225>>>>,
    <<<<68, 73, 82, 67, 0, 0, 0, 2, 0, 0, 0, 2, 0, 0, 0, 7, 0, 0, 0, 0, 0, 0, 0, 7, 0, 0, 0, 0, 0, 0, 0, 5, 0, 0, 0, 9, 0, 0, 129, 237, 0, 0, 0, 0, 0, 0, 0, 0, 0, 0, 0, 0, 230, 157, 226, 155, 178, 209, 214, 67, 75, 139, 41, 174, 119, 90, 216, 194, 228, 140, 83, 145, 0, 6, 97, 98, 46, 116, 120, 116, 0, 0, 0, 0>>,
      <<26, 20, 132, 55, 13, 230, 201, 164, 200, 198, 121, 237, 14, 68, 56, 94, 8, 209, 154, 65>>>>,
    <<<<68, 73, 82, 67, 0, 0, 0, 3, 0, 0, 0, 1, 0, 0, 0, 7, 0, 0, 0, 0, 0, 0, 0, 7, 0, 0, 0, 0, 0, 0, 0, 5, 0, 0, 0, 9, 0, 0, 129, 237, 0, 0, 0, 0, 0, 0, 0, 0, 0, 0, 0, 0, 230, 157, 226, 155, 178, 209, 214, 67, 75, 139, 41, 174, 119, 90, 216, 194, 228, 140, 83, 145, 0, 6, 97, 98, 46, 116, 120, 116, 0, 0, 0, 0>>,
      <<184, 115, 13, 222, 253, 192, 248, 91, 32, 19, 113, 118, 249, 236, 210, 124, 60, 215, 49, 16>>>>,
    <<<<68, 73, 82, 88, 0, 0, 0, 2, 0, 0, 0, 1, 0, 0, 0, 7, 0, 0, 0, 0, 0, 0, 0, 7, 0, 0, 0, 0, 0, 0, 0, 5, 0, 0, 0, 9, 0, 0, 129, 237, 0, 0, 0, 0, 0, 0, 0, 0, 0, 0, 0, 0, 230, 157, 226, 155, 178, 209, 214, 67, 75, 139, 41, 174, 119, 90, 216, 194, 228, 140, 83, 145, 0, 6, 97, 98, 46, 116, 120, 116, 0, 0, 0, 0>>,
      <<163, 39, 106, 170, 103, 115, 42, 8, 162, 134, 56, 9, 227, 159, 87, 226, 135, 15, 12, 233>>>>,
    <<<<68, 73, 82, 67, 0, 0, 0, 2, 0, 0, 0, 0, 0, 0, 0, 1, 0, 0, 0, 2, 0, 0, 0, 3, 0, 0, 0, 4, 0, 0, 0, 5, 0, 0, 0, 6, 0, 0, 129, 164, 0, 0, 3, 232, 0, 0, 3, 232, 0, 0, 0, 5, 182, 252, 76, 98, 11, 103, 217, 95, 149, 58, 92, 28, 18, 48, 170, 171, 93, 181, 161, 176, 0, 1, 97, 0, 0, 0, 0, 1, 0, 0, 0, 2, 0, 0, 0, 3, 0, 0, 0, 4, 0, 0, 0, 5, 0, 0, 0, 6, 0, 0, 129, 164, 0, 0, 3, 232, 0, 0, 3, 232, 0, 0, 0, 5, 182, 252, 76, 98, 11, 103, 217, 95, 149, 58, 92, 28, 18, 48, 170, 171, 93, 181, 161, 176, 0, 1, 97, 0>>,
      <<63, 0, 85, 68, 95, 89, 70, 255, 54, 157, 162, 201, 33, 4, 212, 177, 155, 163, 31, 46>>>>,
    <<<<68, 73, 82, 67, 0, 0, 0, 2, 0, 0, 0, 2, 0, 0, 0, 1, 0, 0, 0, 2, 0, 0, 0, 3, 0, 0, 0, 4, 0, 0, 0, 5, 0, 0, 0, 6, 0, 0, 129, 164, 0, 0, 3, 232, 0, 0, 3, 232, 0, 0, 0, 5, 182, 252, 76, 98, 11, 103, 217, 95, 149, 58, 92, 28, 18, 48, 170, 171, 93, 181, 161, 176, 0, 1, 97, 0, 0, 0, 0, 1, 0, 0, 0, 2, 0, 0, 0, 3, 0, 0, 0, 4, 0, 0, 0, 5, 0, 0, 0, 6, 0, 0, 129, 164, 0, 0, 3, 232, 0, 0, 3, 232, 0, 0, 0, 5, 182, 252, 76, 98, 11, 103, 217, 95, 149, 58, 92, 28, 18, 48, 170, 171, 93, 181, 161, 176, 0, 1, 97, 0>>,
      <<1, 245, 153, 117, 216, 93, 193, 186, 169, 187, 104, 87, 98, 53, 229, 196, 48, 62, 77, 96>>>>,
    <<<<68, 73, 82, 67, 0, 0, 0, 2, 0, 0, 0, 3, 0, 0, 0, 1, 0, 0, 0, 2, 0, 0, 0, 3, 0, 0, 0, 4, 0, 0, 0, 5, 0, 0, 0, 6, 0, 0, 129, 164, 0, 0, 3, 232, 0, 0, 3, 232, 0, 0, 0, 5, 182, 252, 76, 98, 11, 103, 217, 95, 149, 58, 92, 28, 18, 48, 170, 171, 93, 181, 161, 176, 0, 1, 97, 0, 0, 0, 0, 1, 0, 0, 0, 2, 0, 0, 0, 3, 0, 0, 0, 4, 0, 0, 0, 5, 0, 0, 0, 6, 0, 0, 129, 164, 0, 0, 3, 232, 0, 0, 3, 232, 0, 0, 0, 5, 182, 252, 76, 98, 11, 103, 217, 95, 149, 58, 92, 28, 18, 48, 170, 171, 93, 181, 161, 176, 0, 1, 97, 0>>,
      <<53, 215, 49, 97, 21, 156, 122, 31, 16, 28, 246, 57, 155, 185, 252, 170, 81, 52, 75, 58>>>>,
    <<<<68, 73, 82, 67, 0, 0, 0, 2, 0, 0, 0, 0, 0, 0, 0, 1, 0, 0, 0, 2, 0, 0, 0, 3, 0, 0, 0, 4, 0, 0, 0, 5, 0, 0, 0, 6, 0, 0, 129, 164, 0, 0, 3, 232, 0, 0, 3, 232, 0, 0, 0, 5, 182, 252, 76, 98, 11, 103, 217, 95, 149, 58, 92, 28, 18, 48, 170, 171, 93, 181, 161, 176, 0, 1, 97, 0, 0, 0, 0, 7, 0, 0, 0, 0, 0, 0, 0, 7, 0, 0, 0, 0, 0, 0, 0, 5, 0, 0, 0, 9, 0, 0, 129, 237, 0, 0, 0, 0, 0, 0, 0, 0, 0, 0, 0, 0, 230, 157, 226, 155, 178, 209, 214, 67, 75, 139, 41, 174, 119, 90, 216, 194, 228, 140, 83, 145, 0, 6, 97, 98, 46, 116, 120, 116, 0, 0, 0, 0>>,
      <<193, 144, 10, 243, 149, 58, 75, 47, 29, 159, 97, 254, 71, 151, 29, 72, 109, 203, 53, 48>>>>,
    <<<<68, 73, 82, 67, 0, 0, 0, 2, 0, 0, 0, 0, 0, 0, 0, 7, 0, 0, 0, 0, 0, 0, 0, 7, 0, 0, 0, 0, 0, 0, 0, 5, 0, 0, 0, 9, 0, 0, 129, 237, 0, 0, 0, 0, 0, 0, 0, 0, 0, 0, 0, 0, 230, 157, 226, 155, 178, 209, 214, 67, 75, 139, 41, 174, 119, 90, 216, 194, 228, 140, 83, 145, 0, 6, 97, 98, 46, 116, 120, 116, 0, 0, 0, 0, 0, 0, 0, 1, 0, 0, 0, 2, 0, 0, 0, 3, 0, 0, 0, 4, 0, 0, 0, 5, 0, 0, 0, 6, 0, 0, 129, 164, 0, 0, 3, 232, 0, 0, 3, 232, 0, 0, 0, 5, 182, 252, 76, 98, 11, 103, 217, 95, 149, 58, 92, 28, 18, 48, 170, 171, 93, 181, 161, 176, 0, 1, 97, 0>>,
      <<67, 6, 122, 165, 173, 253, 65, 72, 41, 41, 207, 74, 212, 4, 213, 14, 197, 132, 179, 97>>>>,
    <<<<68, 73, 82, 67, 0, 0, 0, 2, 0, 0, 0, 2, 0, 0, 0, 1, 0, 0, 0, 2, 0, 0, 0, 3, 0, 0, 0, 4, 0, 0, 0, 5, 0, 0, 0, 6, 0, 0, 129, 164, 0, 0, 3, 232, 0, 0, 3, 232, 0, 0, 0, 5, 182, 252, 76, 98, 11, 103, 217, 95, 149, 58, 92, 28, 18, 48, 170, 171, 93, 181, 161, 176, 0, 1, 97, 0, 0, 0, 0, 7, 0, 0, 0, 0, 0, 0, 0, 7, 0, 0, 0, 0, 0, 0, 0, 5, 0, 0, 0, 9, 0, 0, 129, 237, 0, 0, 0, 0, 0, 0, 0, 0, 0, 0, 0, 0, 230, 157, 226, 155, 178, 209, 214, 67, 75, 139, 41, 174, 119, 90, 216, 194, 228, 140, 83, 145, 0, 6, 97, 98, 46, 116, 120, 116, 0, 0, 0, 0>>,
      <<179, 33, 79, 48, 94, 118, 115, 173, 182, 242, 149, 46, 14, 113, 137, 202, 126, 240, 10, 224>>>>,
    <<<<68, 73, 82, 67, 0, 0, 0, 2, 0, 0, 0, 2, 0, 0, 0, 7, 0, 0, 0, 0, 0, 0, 0, 7, 0, 0, 0, 0, 0, 0, 0, 5, 0, 0, 0, 9, 0, 0, 129, 237, 0, 0, 0, 0, 0, 0, 0, 0, 0, 0, 0, 0, 230, 157, 226, 155, 178, 209, 214, 67, 75, 139, 41, 174, 119, 90, 216, 194, 228, 140, 83, 145, 0, 6, 97, 98, 46, 116, 120, 116, 0, 0, 0, 0, 0, 0, 0, 1, 0, 0, 0, 2, 0, 0, 0, 3, 0, 0, 0, 4, 0, 0, 0, 5, 0, 0, 0, 6, 0, 0, 129, 164, 0, 0, 3, 232, 0, 0, 3, 232, 0, 0, 0, 5, 182, 252, 76, 98, 11, 103, 217, 95, 149, 58, 92, 28, 18, 48, 170, 171, 93, 181, 161, 176, 0, 1, 97, 0>>,
      <<54, 197, 97, 161, 18, 90, 167, 168, 113, 6, 197, 67, 200, 87, 218, 126, 6, 69, 47, 250>>>>,
    <<<<68, 73, 82, 67, 0, 0, 0, 2, 0, 0, 0, 3, 0, 0, 0, 1, 0, 0, 0, 2, 0, 0, 0, 3, 0, 0, 0, 4, 0, 0, 0, 5, 0, 0, 0, 6, 0, 0, 129, 164, 0, 0, 3, 232, 0, 0, 3, 232, 0, 0, 0, 5, 182, 252, 76, 98, 11, 103, 217, 95, 149, 58, 92, 28, 18, 48, 170, 171, 93, 181, 161, 176, 0, 1, 97, 0, 0, 0, 0, 7, 0, 0, 0, 0, 0, 0, 0, 7, 0, 0, 0, 0, 0, 0, 0, 5, 0, 0, 0, 9, 0, 0, 129, 237, 0, 0, 0, 0, 0, 0, 0, 0, 0, 0, 0, 0, 230, 157, 226, 155, 178, 209, 214, 67, 75, 139, 41, 174, 119, 90, 216, 194, 228, 140, 83, 145, 0, 6, 97, 98, 46, 116, 120, 116, 0, 0, 0, 0>>,
      <<228, 220, 178, 120, 213, 99, 220, 211, 91, 155, 18, 0, 243, 247, 68, 173, 164, 152, 131, 88>>>>,
    <<<<68, 73, 82, 67, 0, 0, 0, 2, 0, 0, 0, 3, 0, 0, 0, 7, 0, 0, 0, 0, 0, 0, 0, 7, 0, 0, 0, 0, 0, 0, 0, 5, 0, 0, 0, 9, 0, 0, 129, 237, 0, 0, 0, 0, 0, 0, 0, 0, 0, 0, 0, 0, 230, 157, 226, 155, 178, 209, 214, 67, 75, 139, 41, 174, 119, 90, 216, 194, 228, 140, 83, 145, 0, 6, 97, 98, 46, 116, 120, 116, 0, 0, 0, 0, 0, 0, 0, 1, 0, 0, 0, 2, 0, 0, 0, 3, 0, 0, 0, 4, 0, 0, 0, 5, 0, 0, 0, 6, 0, 0, 129, 164, 0, 0, 3, 232, 0, 0, 3, 232, 0, 0, 0, 5, 182, 252, 76, 98, 11, 103, 217, 95, 149, 58, 92, 28, 18, 48, 170, 171, 93, 181, 161, 176, 0, 1, 97, 0>>,
      <<51, 77, 30, 248, 94, 112, 222, 63, 238, 105, 103, 232, 159, 41, 138, 16, 213, 54, 117, 15>>>>,
    <<<<68, 73, 82, 67, 0, 0, 0, 2, 0, 0, 0, 0, 0, 0, 0, 7, 0, 0, 0, 0, 0, 0, 0, 7, 0, 0, 0, 0, 0, 0, 0, 5, 0, 0, 0, 9, 0, 0, 129, 237, 0, 0, 0, 0, 0, 0, 0, 0, 0, 0, 0, 0, 230, 157, 226, 155, 178, 209, 214, 67, 75, 139, 41, 174, 119, 90, 216, 194, 228, 140, 83, 145, 0, 6, 97, 98, 46, 116, 120, 116, 0, 0, 0, 0, 0, 0, 0, 7, 0, 0, 0, 0, 0, 0, 0, 7, 0, 0, 0, 0, 0, 0, 0, 5, 0, 0, 0, 9, 0, 0, 129, 237, 0, 0, 0, 0, 0, 0, 0, 0, 0, 0, 0, 0, 230, 157, 226, 155, 178, 209, 214, 67, 75, 139, 41, 174, 119, 90, 216, 194, 228, 140, 83, 145, 0, 6, 97, 98, 46, 116, 120, 116, 0, 0, 0, 0>>,
      <<139, 172, 32, 1, 44, 174, 218, 45, 25, 187, 126, 148, 209, 69, 65, 34, 64, 109, 155, 117>>>>,
    <<<<68, 73, 82, 67, 0, 0, 0, 2, 0, 0, 0, 2, 0, 0, 0, 7, 0, 0, 0, 0, 0, 0, 0, 7, 0, 0, 0, 0, 0, 0, 0, 5, 0, 0, 0, 9, 0, 0, 129, 237, 0, 0, 0, 0, 0, 0, 0, 0, 0, 0, 0, 0, 230, 157, 226, 155, 178, 209, 214, 67, 75, 139, 41, 174, 119, 90, 216, 194, 228, 140, 83, 145, 0, 6, 97, 98, 46, 116, 120, 116, 0, 0, 0, 0, 0, 0, 0, 7, 0, 0, 0, 0, 0, 0, 0, 7, 0, 0, 0, 0, 0, 0, 0, 5, 0, 0, 0, 9, 0, 0, 129, 237, 0, 0, 0, 0, 0, 0, 0, 0, 0, 0, 0, 0, 230, 157, 226, 155, 178, 209, 214, 67, 75, 139, 41, 174, 119, 90, 216, 194, 228, 140, 83, 145, 0, 6, 97, 98, 46, 116, 120, 116, 0, 0, 0, 0>>,
      <<64, 41, 142, 106, 131, 147, 137, 224, 28, 141, 165, 39, 157, 155, 72, 56, 196, 244, 209, 86>>>>,
    <<<<68, 73, 82, 67, 0, 0, 0, 2, 0, 0, 0, 3, 0, 0, 0, 7, 0, 0, 0, 0, 0, 0, 0, 7, 0, 0, 0, 0, 0, 0, 0, 5, 0, 0, 0, 9, 0, 0, 129, 237, 0, 0, 0, 0, 0, 0, 0, 0, 0, 0, 0, 0, 230, 157, 226, 155, 178, 209, 214, 67, 75, 139, 41, 174, 119, 90, 216, 194, 228, 140, 83, 145, 0, 6, 97, 98, 46, 116, 120, 116, 0, 0, 0, 0, 0, 0, 0, 7, 0, 0, 0, 0, 0, 0, 0, 7, 0, 0, 0, 0, 0, 0, 0, 5, 0, 0, 0, 9, 0, 0, 129, 237, 0, 0, 0, 0, 0, 0, 0, 0, 0, 0, 0, 0, 230, 157, 226, 155, 178, 209, 214, 67, 75, 139, 41, 174, 119, 90, 216, 194, 228, 140, 83, 145, 0, 6, 97, 98, 46, 116, 120, 116, 0, 0, 0, 0>>,
      <<142, 185, 33, 79, 13, 248, 170, 171, 215, 92, 246, 111, 5, 58, 59, 85, 88, 123, 4, 109>>>>,
    <<<<68, 73, 82, 67, 0, 0, 0, 2, 0, 0, 0, 0, 0, 0, 0, 1, 0, 0, 0, 2, 0, 0, 0, 3, 0, 0, 0, 4, 0, 0, 0, 5, 0, 0, 0, 6, 0, 0, 129, 164, 0, 0, 3, 232, 0, 0, 3, 232, 0, 0, 0, 5, 182, 252, 76, 98, 11, 103, 217, 95, 149, 58, 92, 28, 18, 48, 170, 171, 93, 181, 161, 176, 0, 1, 97, 0, 0, 0, 0, 1, 0, 0, 0, 2, 0, 0, 0, 3, 0, 0, 0, 4, 0, 0, 0, 5, 0, 0, 0, 6, 0, 0, 129, 164, 0, 0, 3, 232, 0, 0, 3, 232, 0, 0, 0, 5, 182, 252, 76, 98, 11, 103, 217, 95, 149, 58, 92, 28, 18, 48, 170, 171, 93, 181, 161, 176, 0, 1, 97, 0, 0, 0, 0, 1, 0, 0, 0, 2, 0, 0, 0, 3, 0, 0, 0, 4, 0, 0, 0, 5, 0, 0, 0, 6, 0, 0, 129, 164, 0, 0, 3, 232, 0, 0, 3, 232, 0, 0, 0, 5, 182, 252, 76, 98, 11, 103, 217, 95, 149, 58, 92, 28, 18, 48, 170, 171, 93, 181, 161, 176, 0, 1, 97, 0>>,
      <<187, 10, 145, 159, 181, 217, 85, 131, 151, 125, 189, 234, 75, 28, 192, 183, 193, 54, 133, 58>>>>,
    <<<<68, 73, 82, 67, 0, 0, 0, 2, 0, 0, 0, 3, 0, 0, 0, 1, 0, 0, 0, 2, 0, 0, 0, 3, 0, 0, 0, 4, 0, 0, 0, 5, 0, 0, 0, 6, 0, 0, 129, 164, 0, 0, 3, 232, 0, 0, 3, 232, 0, 0, 0, 5, 182, 252, 76, 98, 11, 103, 217, 95, 149, 58, 92, 28, 18, 48, 170, 171, 93, 181, 161, 176, 0, 1, 97, 0, 0, 0, 0, 1, 0, 0, 0, 2, 0, 0, 0, 3, 0, 0, 0, 4, 0, 0, 0, 5, 0, 0, 0, 6, 0, 0, 129, 164, 0, 0, 3, 232, 0, 0, 3, 232, 0, 0, 0, 5, 182, 252, 76, 98, 11, 103, 217, 95, 149, 58, 92, 28, 18, 48, 170, 171, 93, 181, 161, 176, 0, 1, 97, 0, 0, 0, 0, 1, 0, 0, 0, 2, 0, 0, 0, 3, 0, 0, 0, 4, 0, 0, 0, 5, 0, 0, 0, 6, 0, 0, 129, 164, 0, 0, 3, 232, 0, 0, 3, 232, 0, 0, 0, 5, 182, 252, 76, 98, 11, 103, 217, 95, 149, 58, 92, 28, 18, 48, 170, 171, 93, 181, 161, 176, 0, 1, 97, 0>>,
      <<55, 235, 7, 242, 124, 231, 148, 206, 212, 184, 174, 185, 116, 108, 91, 134, 103, 157, 113, 221>>>>,
    <<<<68, 73, 82, 67, 0, 0, 0, 2, 0, 0, 0, 4, 0, 0, 0, 1, 0, 0, 0, 2, 0, 0, 0, 3, 0, 0, 0, 4, 0, 0, 0, 5, 0, 0, 0, 6, 0, 0, 129, 164, 0, 0, 3, 232, 0, 0, 3, 232, 0, 0, 0, 5, 182, 252, 76, 98, 11, 103, 217, 95, 149, 58, 92, 28, 18, 48, 170, 171, 93, 181, 161, 176, 0, 1, 97, 0, 0, 0, 0, 1, 0, 0, 0, 2, 0, 0, 0, 3, 0, 0, 0, 4, 0, 0, 0, 5, 0, 0, 0, 6, 0, 0, 129, 164, 0, 0, 3, 232, 0, 0, 3, 232, 0, 0, 0, 5, 182, 252, 76, 98, 11, 103, 217, 95, 149, 58, 92, 28, 18, 48, 170, 171, 93, 181, 161, 176, 0, 1, 97, 0, 0, 0, 0, 1, 0, 0, 0, 2, 0, 0, 0, 3, 0, 0, 0, 4, 0, 0, 0, 5, 0, 0, 0, 6, 0, 0, 129, 164, 0, 0, 3, 232, 0, 0, 3, 232, 0, 0, 0, 5, 182, 252, 76, 98, 11, 103, 217, 95, 149, 58, 92, 28, 18, 48, 170, 171, 93, 181, 161, 176, 0, 1, 97, 0>>,
      <<175, 28, 228, 224, 12, 20, 162, 148, 222, 35, 153, 88, 62, 43, 203, 100, 31, 139, 47, 140>>>>,
    <<<<68, 73, 82, 67, 0, 0, 0, 2, 0, 0, 0, 0, 0, 0, 0, 1, 0, 0, 0, 2, 0, 0, 0, 3, 0, 0, 0, 4, 0, 0, 0, 5, 0, 0, 0, 6, 0, 0, 129, 164, 0, 0, 3, 232, 0, 0, 3, 232, 0, 0, 0, 5, 182, 252, 76, 98, 11, 103, 217, 95, 149, 58, 92, 28, 18, 48, 170, 171, 93, 181, 161, 176, 0, 1, 97, 0, 0, 0, 0, 1, 0, 0, 0, 2, 0, 0, 0, 3, 0, 0, 0, 4, 0, 0, 0, 5, 0, 0, 0, 6, 0, 0, 129, 164, 0, 0, 3, 232, 0, 0, 3, 232, 0, 0, 0, 5, 182, 252, 76, 98, 11, 103, 217, 95, 149, 58, 92, 28, 18, 48, 170, 171, 93, 181, 161, 176, 0, 1, 97, 0, 0, 0, 0, 7, 0, 0, 0, 0, 0, 0, 0, 7, 0, 0, 0, 0, 0, 0, 0, 5, 0, 0, 0, 9, 0, 0, 129, 237, 0, 0, 0, 0, 0, 0, 0, 0, 0, 0, 0, 0, 230, 157, 226, 155, 178, 209, 214, 67, 75, 139, 41, 174, 119, 90, 216, 194, 228, 140, 83, 145, 0, 6, 97, 98, 46, 116, 120, 116, 0, 0, 0, 0>>,
      <<96, 168, 192, 167, 33, 159, 154, 237, 235, 196, 28, 148, 225, 233, 86, 104, 21, 243, 122, 60>>>>,
    <<<<68, 73, 82, 67, 0, 0, 0, 2, 0, 0, 0, 0, 0, 0, 0, 1, 0, 0, 0, 2, 0, 0, 0, 3, 0, 0, 0, 4, 0, 0, 0, 5, 0, 0, 0, 6, 0, 0, 129, 164, 0, 0, 3, 232, 0, 0, 3, 232, 0, 0, 0, 5, 182, 252, 76, 98, 11, 103, 217, 95, 149, 58, 92, 28, 18, 48, 170, 171, 93, 181, 161, 176, 0, 1, 97, 0, 0, 0, 0, 7, 0, 0, 0, 0, 0, 0, 0, 7, 0, 0, 0, 0, 0, 0, 0, 5, 0, 0, 0, 9, 0, 0, 129, 237, 0, 0, 0, 0, 0, 0, 0, 0, 0, 0, 0, 0, 230, 157, 226, 155, 178, 209, 214, 67, 75, 139, 41, 174, 119, 90, 216, 194, 228, 140, 83, 145, 0, 6, 97, 98, 46, 116, 120, 116, 0, 0, 0, 0, 0, 0, 0, 1, 0, 0, 0, 2, 0, 0, 0, 3, 0, 0, 0, 4, 0, 0, 0, 5, 0, 0, 0, 6, 0, 0, 129, 164, 0, 0, 3, 232, 0, 0, 3, 232, 0, 0, 0, 5, 182, 252, 76, 98, 11, 103, 217, 95, 149, 58, 92, 28, 18, 48, 170, 171, 93, 181, 161, 176, 0, 1, 97, 0>>,
      <<229, 153, 158, 113, 203, 209, 254, 191, 90, 179, 138, 126, 100, 71, 208, 133, 41, 118, 128, 207>>>>,
    <<<<68, 73, 82, 67, 0, 0, 0, 2, 0, 0, 0, 0, 0, 0, 0, 7, 0, 0, 0, 0, 0, 0, 0, 7, 0, 0, 0, 0, 0, 0, 0, 5, 0, 0, 0, 9, 0, 0, 129, 237, 0, 0, 0, 0, 0, 0, 0, 0, 0, 0, 0, 0, 230, 157, 226, 155, 178, 209, 214, 67, 75, 139, 41, 174, 119, 90, 216, 194, 228, 140, 83, 145, 0, 6, 97, 98, 46, 116, 120, 116, 0, 0, 0, 0, 0, 0, 0, 1, 0, 0, 0, 2, 0, 0, 0, 3, 0, 0, 0, 4, 0, 0, 0, 5, 0, 0, 0, 6, 0, 0, 129, 164, 0, 0, 3, 232, 0, 0, 3, 232, 0, 0, 0, 5, 182, 252, 76, 98, 11, 103, 217, 95, 149, 58, 92, 28, 18, 48, 170, 171, 93, 181, 161, 176, 0, 1, 97, 0, 0, 0, 0, 1, 0, 0, 0, 2, 0, 0, 0, 3, 0, 0, 0, 4, 0, 0, 0, 5, 0, 0, 0, 6, 0, 0, 129, 164, 0, 0, 3, 232, 0, 0, 3, 232, 0, 0, 0, 5, 182, 252, 76, 98, 11, 103, 217, 95, 149, 58, 92, 28, 18, 48, 170, 171, 93, 181, 161, 176, 0, 1, 97, 0>>,
      <<93, 23, 137, 110, 170, 153, 229, 57, 199, 187, 119, 96, 112, 189, 81, 174, 158, 103, 164, 156>>>>,
    <<<<68, 73, 82, 67, 0, 0, 0, 2, 0, 0, 0, 3, 0, 0, 0, 1, 0, 0, 0, 2, 0, 0, 0, 3, 0, 0, 0, 4, 0, 0, 0, 5, 0, 0, 0, 6, 0, 0, 129, 164, 0, 0, 3, 232, 0, 0, 3, 232, 0, 0, 0, 5, 182, 252, 76, 98, 11, 103, 217, 95, 149, 58, 92, 28, 18, 48, 170, 171, 93, 181, 161, 176, 0, 1, 97, 0, 0, 0, 0, 1, 0, 0, 0, 2, 0, 0, 0, 3, 0, 0, 0, 4, 0, 0, 0, 5, 0, 0, 0, 6, 0, 0, 129, 164, 0, 0, 3, 232, 0, 0, 3, 232, 0, 0, 0, 5, 182, 252, 76, 98, 11, 103, 217, 95, 149, 58, 92, 28, 18, 48, 170, 171, 93, 181, 161, 176, 0, 1, 97, 0, 0, 0, 0, 7, 0, 0, 0, 0, 0, 0, 0, 7, 0, 0, 0, 0, 0, 0, 0, 5, 0, 0, 0, 9, 0, 0, 129, 237, 0, 0, 0, 0, 0, 0, 0, 0, 0, 0, 0, 0, 230, 157, 226, 155, 178, 209, 214, 67, 75, 139, 41, 174, 119, 90, 216, 194, 228, 140, 83, 145, 0, 6, 97, 98, 46, 116, 120, 116, 0, 0, 0, 0>>,
      <<21, 212, 4, 170, 193, 158, 58, 165, 60, 98, 247, 53, 118, 206, 117, 13, 50, 249, 218, 185>>>>,
    <<<<68, 73, 82, 67, 0, 0, 0, 2, 0, 0, 0, 3, 0, 0, 0, 1, 0, 0, 0, 2, 0, 0, 0, 3, 0, 0, 0, 4, 0, 0, 0, 5, 0, 0, 0, 6, 0, 0, 129, 164, 0, 0, 3, 232, 0, 0, 3, 232, 0, 0, 0, 5, 182, 252, 76, 98, 11, 103, 217, 95, 149, 58, 92, 28, 18, 48, 170, 171, 93, 181, 161, 176, 0, 1, 97, 0, 0, 0, 0, 7, 0, 0, 0, 0, 0, 0, 0, 7, 0, 0, 0, 0, 0, 0, 0, 5, 0, 0, 0, 9, 0, 0, 129, 237, 0, 0, 0, 0, 0, 0, 0, 0, 0, 0, 0, 0, 230, 157, 226, 155, 178, 209, 214, 67, 75, 139, 41, 174, 119, 90, 216, 194, 228, 140, 83, 145, 0, 6, 97, 98, 46, 116, 120, 116, 0, 0, 0, 0, 0, 0, 0, 1, 0, 0, 0, 2, 0, 0, 0, 3, 0, 0, 0, 4, 0, 0, 0, 5, 0, 0, 0, 6, 0, 0, 129, 164, 0, 0, 3, 232, 0, 0, 3, 232, 0, 0, 0, 5, 182, 252, 76, 98, 11, 103, 217, 95, 149, 58, 92, 28, 18, 48, 170, 171, 93, 181, 161, 176, 0, 1, 97, 0>>,
      <<17, 17, 15, 20, 209, 120, 3, 25, 81, 243, 60, 59, 10, 114, 195, 46, 252, 77, 100, 136>>>>,
    <<<<68, 73, 82, 67, 0, 0, 0, 2, 0, 0, 0, 3, 0, 0, 0, 7, 0, 0, 0, 0, 0, 0, 0, 7, 0, 0, 0, 0, 0, 0, 0, 5, 0, 0, 0, 9, 0, 0, 129, 237, 0, 0, 0, 0, 0, 0, 0, 0, 0, 0, 0, 0, 230, 157, 226, 155, 178, 209, 214, 67, 75, 139, 41, 174, 119, 90, 216, 194, 228, 140, 83, 145, 0, 6, 97, 98, 46, 116, 120, 116, 0, 0, 0, 0, 0, 0, 0, 1, 0, 0, 0, 2, 0, 0, 0, 3, 0, 0, 0, 4, 0, 0, 0, 5, 0, 0, 0, 6, 0, 0, 129, 164, 0, 0, 3, 232, 0, 0, 3, 232, 0, 0, 0, 5, 182, 252, 76, 98, 11, 103, 217, 95, 149, 58, 92, 28, 18, 48, 170, 171, 93, 181, 161, 176, 0, 1, 97, 0, 0, 0, 0, 1, 0, 0, 0, 2, 0, 0, 0, 3, 0, 0, 0, 4, 0, 0, 0, 5, 0, 0, 0, 6, 0, 0, 129, 164, 0, 0, 3, 232, 0, 0, 3, 232, 0, 0, 0, 5, 182, 252, 76, 98, 11, 103, 217, 95, 149, 58, 92, 28, 18, 48, 170, 171, 93, 181, 161, 176, 0, 1, 97, 0>>,
      <<45, 27, 246, 79, 78, 84, 213, 25, 12, 118, 143, 235, 105, 241, 86, 114, 5, 224, 85, 21>>>>,
    <<<<68, 73, 82, 67, 0, 0, 0, 2, 0, 0, 0, 4, 0, 0, 0, 1, 0, 0, 0, 2, 0, 0, 0, 3, 0, 0, 0, 4, 0, 0, 0, 5, 0, 0, 0, 6, 0, 0, 129, 164, 0, 0, 3, 232, 0, 0, 3, 232, 0, 0, 0, 5, 182, 252, 76, 98, 11, 103, 217, 95, 149, 58, 92, 28, 18, 48, 170, 171, 93, 181, 161, 176, 0, 1, 97, 0, 0, 0, 0, 1, 0, 0, 0, 2, 0, 0, 0, 3, 0, 0, 0, 4, 0, 0, 0, 5, 0, 0, 0, 6, 0, 0, 129, 164, 0, 0, 3, 232, 0, 0, 3, 232, 0, 0, 0, 5, 182, 252, 76, 98, 11, 103, 217, 95, 149, 58, 92, 28, 18, 48, 170, 171, 93, 181, 161, 176, 0, 1, 97, 0, 0, 0, 0, 7, 0, 0, 0, 0, 0, 0, 0, 7, 0, 0, 0, 0, 0, 0, 0, 5, 0, 0, 0, 9, 0, 0, 129, 237, 0, 0, 0, 0, 0, 0, 0, 0, 0, 0, 0, 0, 230, 157, 226, 155, 178, 209, 214, 67, 75, 139, 41, 174, 119, 90, 216, 194, 228, 140, 83, 145, 0, 6, 97, 98, 46, 116, 120, 116, 0, 0, 0, 0>>,
      <<5, 30, 59, 26, 123, 11, 193, 196, 159, 168, 195, 9, 44, 107, 93, 249, 56, 249, 211, 191>>>>,
    <<<<68, 73, 82, 67, 0, 0, 0, 2, 0, 0, 0, 4, 0, 0, 0, 1, 0, 0, 0, 2, 0, 0, 0, 3, 0, 0, 0, 4, 0, 0, 0, 5, 0, 0, 0, 6, 0, 0, 129, 164, 0, 0, 3, 232, 0, 0, 3, 232, 0, 0, 0, 5, 182, 252, 76, 98, 11, 103, 217, 95, 149, 58, 92, 28, 18, 48, 170, 171, 93, 181, 161, 176, 0, 1, 97, 0, 0, 0, 0, 7, 0, 0, 0, 0, 0, 0, 0, 7, 0, 0, 0, 0, 0, 0, 0, 5, 0, 0, 0, 9, 0, 0, 129, 237, 0, 0, 0, 0, 0, 0, 0, 0, 0, 0, 0, 0, 230, 157, 226, 155, 178, 209, 214, 67, 75, 139, 41, 174, 119, 90, 216, 194, 228, 140, 83, 145, 0, 6, 97, 98, 46, 116, 120, 116, 0, 0, 0, 0, 0, 0, 0, 1, 0, 0, 0, 2, 0, 0, 0, 3, 0, 0, 0, 4, 0, 0, 0, 5, 0, 0, 0, 6, 0, 0, 129, 164, 0, 0, 3, 232, 0, 0, 3, 232, 0, 0, 0, 5, 182, 252, 76, 98, 11, 103, 217, 95, 149, 58, 92, 28, 18, 48, 170, 171, 93, 181, 161, 176, 0, 1, 97, 0>>,
      <<166, 99, 146, 99, 148, 118, 246, 56, 171, 24, 42, 59, 215, 153, 197, 157, 124, 228, 63, 199>>>>,
    <<<<68, 73, 82, 67, 0, 0, 0, 2, 0, 0, 0, 4, 0, 0, 0, 7, 0, 0, 0, 0, 0, 0, 0, 7, 0, 0, 0, 0, 0, 0, 0, 5, 0, 0, 0, 9, 0, 0, 129, 237, 0, 0, 0, 0, 0, 0, 0, 0, 0, 0, 0, 0, 230, 157, 226, 155, 178, 209, 214, 67, 75, 139, 41, 174, 119, 90, 216, 194, 228, 140, 83, 145, 0, 6, 97, 98, 46, 116, 120, 116, 0, 0, 0, 0, 0, 0, 0, 1, 0, 0, 0, 2, 0, 0, 0, 3, 0, 0, 0, 4, 0, 0, 0, 5, 0, 0, 0, 6, 0, 0, 129, 164, 0, 0, 3, 232, 0, 0, 3, 232, 0, 0, 0, 5, 182, 252, 76, 98, 11, 103, 217, 95, 149, 58, 92, 28, 18, 48, 170, 171, 93, 181, 161, 176, 0, 1, 97, 0, 0, 0, 0, 1, 0, 0, 0, 2, 0, 0, 0, 3, 0, 0, 0, 4, 0, 0, 0, 5, 0, 0, 0, 6, 0, 0, 129, 164, 0, 0, 3, 232, 0, 0, 3, 232, 0, 0, 0, 5, 182, 252, 76, 98, 11, 103, 217, 95, 149, 58, 92, 28, 18, 48, 170, 171, 93, 181, 161, 176, 0, 1, 97, 0>>,
      <<136, 94, 118, 50, 249, 181, 233, 156, 190, 100, 208, 148, 109, 90, 187, 9, 176, 68, 167, 187>>>>,
    <<<<68, 73, 82, 67, 0, 0, 0, 2, 0, 0, 0, 0, 0, 0, 0, 1, 0, 0, 0, 2, 0, 0, 0, 3, 0, 0, 0, 4, 0, 0, 0, 5, 0, 0, 0, 6, 0, 0, 129, 164, 0, 0, 3, 232, 0, 0, 3, 232, 0, 0, 0, 5, 182, 252, 76, 98, 11, 103, 217, 95, 149, 58, 92, 28, 18, 48, 170, 171, 93, 181, 161, 176, 0, 1, 97, 0, 0, 0, 0, 7, 0, 0, 0, 0, 0, 0, 0, 7, 0, 0, 0, 0, 0, 0, 0, 5, 0, 0, 0, 9, 0, 0, 129, 237, 0, 0, 0, 0, 0, 0, 0, 0, 0, 0, 0, 0, 230, 157, 226, 155, 178, 209, 214, 67, 75, 139, 41, 174, 119, 90, 216, 194, 228, 140, 83, 145, 0, 6, 97, 98, 46, 116, 120, 116, 0, 0, 0, 0, 0, 0, 0, 7, 0, 0, 0, 0, 0, 0, 0, 7, 0, 0, 0, 0, 0, 0, 0, 5, 0, 0, 0, 9, 0, 0, 129, 237, 0, 0, 0, 0, 0, 0, 0, 0, 0, 0, 0, 0, 230, 157, 226, 155, 178, 209, 214, 67, 75, 139, 41, 174, 119, 90, 216, 194, 228, 140, 83, 145, 0, 6, 97, 98, 46, 116, 120, 116, 0, 0, 0, 0>>,
      <<38, 208, 69, 94, 235, 144, 239, 84, 182, 89, 170, 106, 142, 151, 94, 236, 148, 0, 223, 73>>>>,
    <<<<68, 73, 82, 67, 0, 0, 0, 2, 0, 0, 0, 0, 0, 0, 0, 7, 0, 0, 0, 0, 0, 0, 0, 7, 0, 0, 0, 0, 0, 0, 0, 5, 0, 0, 0, 9, 0, 0, 129, 237, 0, 0, 0, 0, 0, 0, 0, 0, 0, 0, 0, 0, 230, 157, 226, 155, 178, 209, 214, 67, 75, 139, 41, 174, 119, 90, 216, 194, 228, 140, 83, 145, 0, 6, 97, 98, 46, 116, 120, 116, 0, 0, 0, 0, 0, 0, 0, 1, 0, 0, 0, 2, 0, 0, 0, 3, 0, 0, 0, 4, 0, 0, 0, 5, 0, 0, 0, 6, 0, 0, 129, 164, 0, 0, 3, 232, 0, 0, 3, 232, 0, 0, 0, 5, 182, 252, 76, 98, 11, 103, 217, 95, 149, 58, 92, 28, 18, 48, 170, 171, 93, 181, 161, 176, 0, 1, 97, 0, 0, 0, 0, 7, 0, 0, 0, 0, 0, 0, 0, 7, 0, 0, 0, 0, 0, 0, 0, 5, 0, 0, 0, 9, 0, 0, 129, 237, 0, 0, 0, 0, 0, 0, 0, 0, 0, 0, 0, 0, 230, 157, 226, 155, 178, 209, 214, 67, 75, 139, 41, 174, 119, 90, 216, 194, 228, 140, 83, 145, 0, 6, 97, 98, 46, 116, 120, 116, 0, 0, 0, 0>>,
      <<97, 103, 235, 209, 21, 22, 251, 142, 40, 58, 9, 158, 79, 28, 44, 126, 103, 19, 196, 236>>>>,
    <<<<68, 73, 82, 67, 0, 0, 0, 2, 0, 0, 0, 0, 0, 0, 0, 7, 0, 0, 0, 0, 0, 0, 0, 7, 0, 0, 0, 0, 0, 0, 0, 5, 0, 0, 0, 9, 0, 0, 129, 237, 0, 0, 0, 0, 0, 0, 0, 0, 0, 0, 0, 0, 230, 157, 226, 155, 178, 209, 214, 67, 75, 139, 41, 174, 119, 90, 216, 194, 228, 140, 83, 145, 0, 6, 97, 98, 46, 116, 120, 116, 0, 0, 0, 0, 0, 0, 0, 7, 0, 0, 0, 0, 0, 0, 0, 7, 0, 0, 0, 0, 0, 0, 0, 5, 0, 0, 0, 9, 0, 0, 129, 237, 0, 0, 0, 0, 0, 0, 0, 0, 0, 0, 0, 0, 230, 157, 226, 155, 178, 209, 214, 67, 75, 139, 41, 174, 119, 90, 216, 194, 228, 140, 83, 145, 0, 6, 97, 98, 46, 116, 120, 116, 0, 0, 0, 0, 0, 0, 0, 1, 0, 0, 0, 2, 0, 0, 0, 3, 0, 0, 0, 4, 0, 0, 0, 5, 0, 0, 0, 6, 0, 0, 129, 164, 0, 0, 3, 232, 0, 0, 3, 232, 0, 0, 0, 5, 182, 252, 76, 98, 11, 103, 217, 95, 149, 58, 92, 28, 18, 48, 170, 171, 93, 181, 161, 176, 0, 1, 97, 0>>,
      <<24, 101, 172, 211, 64, 106, 218, 199, 162, 200, 138, 129, 3, 175, 20, 114, 237, 41, 240, 212>>>>,
    <<<<68, 73, 82, 67, 0, 0, 0, 2, 0, 0, 0, 3, 0, 0, 0, 1, 0, 0, 0, 2, 0, 0, 0, 3, 0, 0, 0, 4, 0, 0, 0, 5, 0, 0, 0, 6, 0, 0, 129, 164, 0, 0, 3, 232, 0, 0, 3, 232, 0, 0, 0, 5, 182, 252, 76, 98, 11, 103, 217, 95, 149, 58, 92, 28, 18, 48, 170, 171, 93, 181, 161, 176, 0, 1, 97, 0, 0, 0, 0, 7, 0, 0, 0, 0, 0, 0, 0, 7, 0, 0, 0, 0, 0, 0, 0, 5, 0, 0, 0, 9, 0, 0, 129, 237, 0, 0, 0, 0, 0, 0, 0, 0, 0, 0, 0, 0, 230, 157, 226, 155, 178, 209, 214, 67, 75, 139, 41, 174, 119, 90, 216, 194, 228, 140, 83, 145, 0, 6, 97, 98, 46, 116, 120, 116, 0, 0, 0, 0, 0, 0, 0, 7, 0, 0, 0, 0, 0, 0, 0, 7, 0, 0, 0, 0, 0, 0, 0, 5, 0, 0, 0, 9, 0, 0, 129, 237, 0, 0, 0, 0, 0, 0, 0, 0, 0, 0, 0, 0, 230, 157, 226, 155, 178, 209, 214, 67, 75, 139, 41, 174, 119, 90, 216, 194, 228, 140, 83, 145, 0, 6, 97, 98, 46, 116, 120, 116, 0, 0, 0, 0>>,
      <<52, 35, 227, 197, 211, 108, 255, 214, 24, 219, 201, 233, 176, 178, 101, 250, 107, 193, 125, 122>>>>,
    <<<<68, 73, 82, 67, 0, 0, 0, 2, 0, 0, 0, 3, 0, 0, 0, 7, 0, 0, 0, 0, 0, 0, 0, 7, 0, 0, 0, 0, 0, 0, 0, 5, 0, 0, 0, 9, 0, 0, 129, 237, 0, 0, 0, 0, 0, 0, 0, 0, 0, 0, 0, 0, 230, 157, 226, 155, 178, 209, 214, 67, 75, 139, 41, 174, 119, 90, 216, 194, 228, 140, 83, 145, 0, 6, 97, 98, 46, 116, 120, 116, 0, 0, 0, 0, 0, 0, 0, 1, 0, 0, 0, 2, 0, 0, 0, 3, 0, 0, 0, 4, 0, 0, 0, 5, 0, 0, 0, 6, 0, 0, 129, 164, 0, 0, 3, 232, 0, 0, 3, 232, 0, 0, 0, 5, 182, 252, 76, 98, 11, 103, 217, 95, 149, 58, 92, 28, 18, 48, 170, 171, 93, 181, 161, 176, 0, 1, 97, 0, 0, 0, 0, 7, 0, 0, 0, 0, 0, 0, 0, 7, 0, 0, 0, 0, 0, 0, 0, 5, 0, 0, 0, 9, 0, 0, 129, 237, 0, 0, 0, 0, 0, 0, 0, 0, 0, 0, 0, 0, 230, 157, 226, 155, 178, 209, 214, 67, 75, 139, 41, 174, 119, 90, 216, 194, 228, 140, 83, 145, 0, 6, 97, 98, 46, 116, 120, 116, 0, 0, 0, 0>>,
      <<39, 179, 38, 72, 105, 18, 159, 241, 116, 78, 109, 252, 44, 99, 254, 120, 22, 68, 56, 230>>>>,
    <<<<68, 73, 82, 67, 0, 0, 0, 2, 0, 0, 0, 3, 0, 0, 0, 7, 0, 0, 0, 0, 0, 0, 0, 7, 0, 0, 0, 0, 0, 0, 0, 5, 0, 0, 0, 9, 0, 0, 129, 237, 0, 0, 0, 0, 0, 0, 0, 0, 0, 0, 0, 0, 230, 157, 226, 155, 178, 209, 214, 67, 75, 139, 41, 174, 119, 90, 216, 194, 228, 140, 83, 145, 0, 6, 97, 98, 46, 116, 120, 116, 0, 0, 0, 0, 0, 0, 0, 7, 0, 0, 0, 0, 0, 0, 0, 7, 0, 0, 0, 0, 0, 0, 0, 5, 0, 0, 0, 9, 0, 0, 129, 237, 0, 0, 0, 0, 0, 0, 0, 0, 0, 0, 0, 0, 230, 157, 226, 155, 178, 209, 214, 67, 75, 139, 41, 174, 119, 90, 216, 194, 228, 140, 83, 145, 0, 6, 97, 98, 46, 116, 120, 116, 0, 0, 0, 0, 0, 0, 0, 1, 0, 0, 0, 2, 0, 0, 0, 3, 0, 0, 0, 4, 0, 0, 0, 5, 0, 0, 0, 6, 0, 0, 129, 164, 0, 0, 3, 232, 0, 0, 3, 232, 0, 0, 0, 5, 182, 252, 76, 98, 11, 103, 217, 95, 149, 58, 92, 28, 18, 48, 170, 171, 93, 181, 161, 176, 0, 1, 97, 0>>,
      <<42, 220, 113, 152, 121, 182, 151, 232, 157, 104, 59, 155, 6, 183, 209, 72, 225, 12, 186, 48>>>>,
    <<<<68, 73, 82, 67, 0, 0, 0, 2, 0, 0, 0, 4, 0, 0, 0, 1, 0, 0, 0, 2, 0, 0, 0, 3, 0, 0, 0, 4, 0, 0, 0, 5, 0, 0, 0, 6, 0, 0, 129, 164, 0, 0, 3, 232, 0, 0, 3, 232, 0, 0, 0, 5, 182, 252, 76, 98, 11, 103, 217, 95, 149, 58, 92, 28, 18, 48, 170, 171, 93, 181, 161, 176, 0, 1, 97, 0, 0, 0, 0, 7, 0, 0, 0, 0, 0, 0, 0, 7, 0, 0, 0, 0, 0, 0, 0, 5, 0, 0, 0, 9, 0, 0, 129, 237, 0, 0, 0, 0, 0, 0, 0, 0, 0, 0, 0, 0, 230, 157, 226, 155, 178, 209, 214, 67, 75, 139, 41, 174, 119, 90, 216, 194, 228, 140, 83, 145, 0, 6, 97, 98, 46, 116, 120, 116, 0, 0, 0, 0, 0, 0, 0, 7, 0, 0, 0, 0, 0, 0, 0, 7, 0, 0, 0, 0, 0, 0, 0, 5, 0, 0, 0, 9, 0, 0, 129, 237, 0, 0, 0, 0, 0, 0, 0, 0, 0, 0, 0, 0, 230, 157, 226, 155, 178, 209, 214, 67, 75, 139, 41, 174, 119, 90, 216, 194, 228, 140, 83, 145, 0, 6, 97, 98, 46, 116, 120, 116, 0, 0, 0, 0>>,
      <<252, 161, 147, 74, 12, 4, 208, 88, 118, 255, 126, 32, 165, 134, 31, 26, 198, 240, 149, 133>>>>,
    <<<<68, 73, 82, 67, 0, 0, 0, 2, 0, 0, 0, 4, 0, 0, 0, 7, 0, 0, 0, 0, 0, 0, 0, 7, 0, 0, 0, 0, 0, 0, 0, 5, 0, 0, 0, 9, 0, 0, 129, 237, 0, 0, 0, 0, 0, 0, 0, 0, 0, 0, 0, 0, 230, 157, 226, 155, 178, 209, 214, 67, 75, 139, 41, 174, 119, 90, 216, 194, 228, 140, 83, 145, 0, 6, 97, 98, 46, 116, 120, 116, 0, 0, 0, 0, 0, 0, 0, 1, 0, 0, 0, 2, 0, 0, 0, 3, 0, 0, 0, 4, 0, 0, 0, 5, 0, 0, 0, 6, 0, 0, 129, 164, 0, 0, 3, 232, 0, 0, 3, 232, 0, 0, 0, 5, 182, 252, 76, 98, 11, 103, 217, 95, 149, 58, 92, 28, 18, 48, 170, 171, 93, 181, 161, 176, 0, 1, 97, 0, 0, 0, 0, 7, 0, 0, 0, 0, 0, 0, 0, 7, 0, 0, 0, 0, 0, 0, 0, 5, 0, 0, 0, 9, 0, 0, 129, 237, 0, 0, 0, 0, 0, 0, 0, 0, 0, 0, 0, 0, 230, 157, 226, 155, 178, 209, 214, 67, 75, 139, 41, 174, 119, 90, 216, 194, 228, 140, 83, 145, 0, 6, 97, 98, 46, 116, 120, 116, 0, 0, 0, 0>>,
      <<168, 144, 247, 100, 127, 244, 54, 139, 10, 158, 46, 23, 73, 225, 248, 105, 54, 156, 192, 210>>>>,
    <<<<68, 73, 82, 67, 0, 0, 0, 2, 0, 0, 0, 4, 0, 0, 0, 7, 0, 0, 0, 0, 0, 0, 0, 7, 0, 0, 0, 0, 0, 0, 0, 5, 0, 0, 0, 9, 0, 0, 129, 237, 0, 0, 0, 0, 0, 0, 0, 0, 0, 0, 0, 0, 230, 157, 226, 155, 178, 209, 214, 67, 75, 139, 41, 174, 119, 90, 216, 194, 228, 140, 83, 145, 0, 6, 97, 98, 46, 116, 120, 116, 0, 0, 0, 0, 0, 0, 0, 7, 0, 0, 0, 0, 0, 0, 0, 7, 0, 0, 0, 0, 0, 0, 0, 5, 0, 0, 0, 9, 0, 0, 129, 237, 0, 0, 0, 0, 0, 0, 0, 0, 0, 0, 0, 0, 230, 157, 226, 155, 178, 209, 214, 67, 75, 139, 41, 174, 119, 90, 216, 194, 228, 140, 83, 145, 0, 6, 97, 98, 46, 116, 120, 116, 0, 0, 0, 0, 0, 0, 0, 1, 0, 0, 0, 2, 0, 0, 0, 3, 0, 0, 0, 4, 0, 0, 0, 5, 0, 0, 0, 6, 0, 0, 129, 164, 0, 0, 3, 232, 0, 0, 3, 232, 0, 0, 0, 5, 182, 252, 76, 98, 11, 103, 217, 95, 149, 58, 92, 28, 18, 48, 170, 171, 93, 181, 161, 176, 0, 1, 97, 0>>,
      <<175, 143, 181, 136, 191, 173, 192, 219, 45, 62, 23, 230, 19, 209, 29, 216, 110, 177, 226, 118>>>>,
    <<<<68, 73, 82, 67, 0, 0, 0, 2, 0, 0, 0, 0, 0, 0, 0, 7, 0, 0, 0, 0, 0, 0, 0, 7, 0, 0, 0, 0, 0, 0, 0, 5, 0, 0, 0, 9, 0, 0, 129, 237, 0, 0, 0, 0, 0, 0, 0, 0, 0, 0, 0, 0, 230, 157, 226, 155, 178, 209, 214, 67, 75, 139, 41, 174, 119, 90, 216, 194, 228, 140, 83, 145, 0, 6, 97, 98, 46, 116, 120, 116, 0, 0, 0, 0, 0, 0, 0, 7, 0, 0, 0, 0, 0, 0, 0, 7, 0, 0, 0, 0, 0, 0, 0, 5, 0, 0, 0, 9, 0, 0, 129, 237, 0, 0, 0, 0, 0, 0, 0, 0, 0, 0, 0, 0, 230, 157, 226, 155, 178, 209, 214, 67, 75, 139, 41, 174, 119, 90, 216, 194, 228, 140, 83, 145, 0, 6, 97, 98, 46, 116, 120, 116, 0, 0, 0, 0, 0, 0, 0, 7, 0, 0, 0, 0, 0, 0, 0, 7, 0, 0, 0, 0, 0, 0, 0, 5, 0, 0, 0, 9, 0, 0, 129, 237, 0, 0, 0, 0, 0, 0, 0, 0, 0, 0, 0, 0, 230, 157, 226, 155, 178, 209, 214, 67, 75, 139, 41, 174, 119, 90, 216, 194, 228, 140, 83, 145, 0, 6, 97, 98, 46, 116, 120, 116, 0, 0, 0, 0>>,
      <<164, 94, 94, 25, 86, 47, 231, 69, 22, 44, 201, 192, 144, 97, 13, 37, 96, 191, 97, 129>>>>,
    <<<<68, 73, 82, 67, 0, 0, 0, 2, 0, 0, 0, 3, 0, 0, 0, 7, 0, 0, 0, 0, 0, 0, 0, 7, 0, 0, 0, 0, 0, 0, 0, 5, 0, 0, 0, 9, 0, 0, 129, 237, 0, 0, 0, 0, 0, 0, 0, 0, 0, 0, 0, 0, 230, 157, 226, 155, 178, 209, 214, 67, 75, 139, 41, 174, 119, 90, 216, 194, 228, 140, 83, 145, 0, 6, 97, 98, 46, 116, 120, 116, 0, 0, 0, 0, 0, 0, 0, 7, 0, 0, 0, 0, 0, 0, 0, 7, 0, 0, 0, 0, 0, 0, 0, 5, 0, 0, 0, 9, 0, 0, 129, 237, 0, 0, 0, 0, 0, 0, 0, 0, 0, 0, 0, 0, 230, 157, 226, 155, 178, 209, 214, 67, 75, 139, 41, 174, 119, 90, 216, 194, 228, 140, 83, 145, 0, 6, 97, 98, 46, 116, 120, 116, 0, 0, 0, 0, 0, 0, 0, 7, 0, 0, 0, 0, 0, 0, 0, 7, 0, 0, 0, 0, 0, 0, 0, 5, 0, 0, 0, 9, 0, 0, 129, 237, 0, 0, 0, 0, 0, 0, 0, 0, 0, 0, 0, 0, 230, 157, 226, 155, 178, 209, 214, 67, 75, 139, 41, 174, 119, 90, 216, 194, 228, 140, 83, 145, 0, 6, 97, 98, 46, 116, 120, 116, 0, 0, 0, 0>>,
      <<135, 78, 185, 20, 50, 139, 67, 42, 135, 188, 54, 225, 5, 244, 235, 125, 118, 191, 254, 218>>>>,
    <<<<68, 73, 82, 67, 0, 0, 0, 2, 0, 0, 0, 4, 0, 0, 0, 7, 0, 0, 0, 0, 0, 0, 0, 7, 0, 0, 0, 0, 0, 0, 0, 5, 0, 0, 0, 9, 0, 0, 129, 237, 0, 0, 0, 0, 0, 0, 0, 0, 0, 0, 0, 0, 230, 157, 226, 155, 178, 209, 214, 67, 75, 139, 41, 174, 119, 90, 216, 194, 228, 140, 83, 145, 0, 6, 97, 98, 46, 116, 120, 116, 0, 0, 0, 0, 0, 0, 0, 7, 0, 0, 0, 0, 0, 0, 0, 7, 0, 0, 0, 0, 0, 0, 0, 5, 0, 0, 0, 9, 0, 0, 129, 237, 0, 0, 0, 0, 0, 0, 0, 0, 0, 0, 0, 0, 230, 157, 226, 155, 178, 209, 214, 67, 75, 139, 41, 174, 119, 90, 216, 194, 228, 140, 83, 145, 0, 6, 97, 98, 46, 116, 120, 116, 0, 0, 0, 0, 0, 0, 0, 7, 0, 0, 0, 0, 0, 0, 0, 7, 0, 0, 0, 0, 0, 0, 0, 5, 0, 0, 0, 9, 0, 0, 129, 237, 0, 0, 0, 0, 0, 0, 0, 0, 0, 0, 0, 0, 230, 157, 226, 155, 178, 209, 214, 67, 75, 139, 41, 174, 119, 90, 216, 194, 228, 140, 83, 145, 0, 6, 97, 98, 46, 116, 120, 116, 0, 0, 0, 0>>,
      <<51, 58, 221, 193, 97, 17, 37, 173, 137, 107, 134, 121, 72, 106, 175, 24, 233, 126, 186, 233>>>>
}

Sha1Table == Sha1Objects \cup Sha1Index

---------------------------------------------------------------------------
(* hashlib and zlib. *)

\* hashlib.sha1(b).digest(): 20 bytes.
SHA1(b) == (CHOOSE e \in Sha1Table : e[1] = b)[2]

\* zlib.compress(b)
Compress(b) == (CHOOSE e \in ZlibTable : e[1] = b)[2]

\* zlib.decompress(c): the bytes a complete stream holds; zlib.error for
\* anything else (an empty file, a cut stream).
Decompress(c) ==
    IF \E e \in ZlibTable : e[2] = c
    THEN Ok(<<>>, (CHOOSE e \in ZlibTable : e[2] = c)[1])
    ELSE Raise("zlib.error", "incomplete or truncated stream", 0)

---------------------------------------------------------------------------
(* The file system under .git/objects: fs.dirs and fs.files. *)

EmptyFS == [dirs |-> {}, files |-> <<>>]

\* os.path.join('.git', 'objects', sha1[:2], sha1[2:])
ObjectPath(sha1) == <<PySlice(sha1, 0, 2), PySlice(sha1, 2, Len(sha1))>>

\* os.path.exists(path)
exists(fs, path) == path \in DOMAIN fs.files

\* os.makedirs(os.path.dirname(path), exist_ok=True)
makedirs(fs, path) == [fs EXCEPT !.dirs = @ \cup {path[1]}]

\* open(path, 'wb'): the file is created, or cut to no bytes.
open_wb(fs, path) == [fs EXCEPT !.files = (path :> <<>>) @@ @]

\* f.write(data) and the close that ends the with block.
write_close(fs, path, data) == [fs EXCEPT !.files = (path :> data) @@ @]

write_file(fs, path, data) == write_close(open_wb(fs, path), path, data)

read_file(fs, path) == fs.files[path]

\* os.listdir(obj_dir) of a shard directory that exists.
listdir(fs, shard) == {p[2] : p \in {q \in DOMAIN fs.files : q[1] = shard}}

---------------------------------------------------------------------------
(* The object store. *)

\* header + b'\x00' + data
FullData(data, obj_type) ==
    Encode(obj_type \o <<32>> \o DecStr(Len(data))) \o <<0>> \o data

\* hashlib.sha1(full_data).hexdigest()
Sha1Hex(data, obj_type) == HexStr(SHA1(FullData(data, obj_type)))

\* A hash_object that writes whenever it is asked to, existing file or not.
MustWriteAlways(fs, path, write) == write

\* The test of line 113: the object is written when it has no file yet.
MustWrite(fs, path, write) == write /\ ~exists(fs, path)

\* hash_object(data, obj_type, write): the file system it leaves, the digest
\* it returns, and whether it called write_file.
hash_object(fs, data, obj_type, write) ==
    LET full_data == FullData(data, obj_type)
        sha1 == Sha1Hex(data, obj_type)
        path == ObjectPath(sha1)
        wrote == MustWrite(fs, path, write)
    IN  [fs |-> IF wrote
                THEN write_file(makedirs(fs, path), path, Compress(full_data))
                ELSE fs,
         sha1 |-> sha1,
         wrote |-> wrote]

\* The names of the shard that start with rest (line 133).
Candidates(fs, obj_dir, rest) == {name \in listdir(fs, obj_dir) : StartsWith(name, rest)}

\* A find_object whose second test reads len(objects) > 2.
SeveralFoundOffByOne(objects) == Cardinality(objects) > 2

\* The tests of lines 134 and 136 on the candidates.
NoneFound(objects) == objects = {}
SeveralFound(objects) == Cardinality(objects) >= 2

\* find_object(sha1_prefix): the path <<shard, name>> in a and b.
find_object(fs, sha1_prefix) ==
    IF Len(sha1_prefix) < 2
    THEN Raise("ValueError", "hash prefix must be 2 or more characters", 0)
    ELSE LET obj_dir == PySlice(sha1_prefix, 0, 2)
             rest == PySlice(sha1_prefix, 2, Len(sha1_prefix))
         IN  IF obj_dir \notin fs.dirs
             THEN Raise("FileNotFoundError", "listdir", 0)
             ELSE LET objects == Candidates(fs, obj_dir, rest)
                  IN  IF NoneFound(objects)
                      THEN Raise("ValueError", "object not found", 0)
                      ELSE IF SeveralFound(objects)
                      THEN Raise("ValueError", "multiple objects", Cardinality(objects))
                      ELSE Ok(obj_dir, CHOOSE name \in objects : TRUE)

\* s.rfind(b): the 0-based index of the last b, or -1.
RECURSIVE FindLast(_, _, _)
FindLast(s, b, i) ==
    IF i < 0 THEN -1
    ELSE IF s[i + 1] = b THEN i
    ELSE FindLast(s, b, i - 1)

\* A read_object that splits at the last NUL of the file instead of the first.
UnframeAtLastNul(full_data) ==
    LET null_index == FindLast(full_data, 0, Len(full_data) - 1)
    IN  IF null_index = -1
        THEN Raise("ValueError", "subsection not found", 0)
        ELSE LET header == PySlice(full_data, 0, null_index)
                 toks == PySplit(header)
             IN  IF Len(toks) # 2
                 THEN Raise("ValueError", "unpack", Len(toks))
                 ELSE IF ~IsInt(toks[2], 10)
                 THEN Raise("ValueError", "invalid literal for int()", 0)
                 ELSE LET size == IntVal(toks[2], 10)
                          data == PySlice(full_data, null_index + 1, Len(full_data))
                      IN  IF size # Len(data)
                          THEN Raise("AssertionError", "expected size", size)
                          ELSE Ok(toks[1], data)

\* The part of read_object after the decompression: lines 155-163.
Unframe(full_data) ==
    LET null_index == Find(full_data, 0, 0)
    IN  IF null_index = -1
        THEN Raise("ValueError", "subsection not found", 0)
        ELSE LET header == PySlice(full_data, 0, null_index)
                 toks == PySplit(Decode(header))
             IN  IF Len(toks) # 2
                 THEN Raise("ValueError", "unpack", Len(toks))
                 ELSE IF ~IsInt(toks[2], 10)
                 THEN Raise("ValueError", "invalid literal for int()", 0)
                 ELSE LET size == IntVal(toks[2], 10)
                          data == PySlice(full_data, null_index + 1, Len(full_data))
                      IN  IF size # Len(data)
                          THEN Raise("AssertionError", "expected size", size)
                          ELSE Ok(toks[1], data)

\* read_object(sha1_prefix): the object's type in a and its data in b.
read_object(fs, sha1_prefix) ==
    LET found == find_object(fs, sha1_prefix)
    IN  IF found.kind # "ok" THEN found
        ELSE LET z == Decompress(read_file(fs, <<found.a, found.b>>))
             IN  IF z.kind # "ok" THEN z ELSE Unframe(z.b)

---------------------------------------------------------------------------
(* The calls the model makes on the store. *)

\* The objects the model writes: every type, the empty payload, payloads
\* holding NUL, and the three objects of shard b6.
Objects == {
    <<Blob, <<>>>>,
    <<Blob, <<104, 101, 108, 108, 111>>>>,
    <<Tree, <<65, 0, 120>>>>,
    <<Blob, <<11, 0>>>>,
    <<Commit, <<104, 101, 108, 108, 111>>>>,
    <<Tree, <<>>>>
}

Digests == {Sha1Hex(p, t) : t \in Types, p \in Payloads}

PrefixLens == (2..MaxPrefixLen) \cup {40}

\* "zz"
ZZ == <<122, 122>>

\* The prefixes of the digests, each shard followed by "zz" (no name starts
\* with it), and "zz" (no such shard).
PrefixesOf(ds) ==
    {PySlice(d, 0, k) : d \in ds, k \in PrefixLens} \cup {PySlice(d, 0, 2) \o ZZ : d \in ds}
        \cup {ZZ}

Prefixes == PrefixesOf(Digests)

\* The prefixes find_object and read_object are called with: those of blob
\* b"hello", tree b"A\x00x" and blob b"", and a prefix of one character.
QueryPrefixes ==
    PrefixesOf({Sha1Hex(<<104, 101, 108, 108, 111>>, Blob), Sha1Hex(<<65, 0, 120>>, Tree),
                Sha1Hex(<<>>, Blob)})
        \cup {<<98>>}

FS == [dirs |-> dirs, files |-> files]

Call(op, t, p, write, prefix, wrote, out) ==
    [op |-> op, t |-> t, p |-> p, write |-> write, prefix |-> prefix,
     wrote |-> wrote, out |-> out]

HashObject(t, p, write) ==
    LET r == hash_object(FS, p, t, write)
    IN  /\ dirs' = r.fs.dirs
        /\ files' = r.fs.files
        /\ ret' = Call("hash_object", t, p, write, <<>>, r.wrote, Ok(r.sha1, <<>>))
        /\ tick' = 1 - tick
        /\ UNCHANGED <<concVars, indexVars, treeVars>>

FindObject(prefix) ==
    /\ ret' = Call("find_object", <<>>, <<>>, FALSE, prefix, FALSE, find_object(FS, prefix))
    /\ tick' = 1 - tick
    /\ UNCHANGED <<dirs, files, concVars, indexVars, treeVars>>

ReadObject(prefix) ==
    /\ ret' = Call("read_object", <<>>, <<>>, FALSE, prefix, FALSE, read_object(FS, prefix))
    /\ tick' = 1 - tick
    /\ UNCHANGED <<dirs, files, concVars, indexVars, treeVars>>

---------------------------------------------------------------------------
(* hash_object step by step: writers that run at the same time, a writer   *)
(* that is interrupted, and a reader.  A writer's pc names the line it is  *)
(* about to run.                                                           *)

Writers == {"w1", "w2"}

\* The objects the concurrent writers write.
ConcObjects == {
    <<Blob, <<104, 101, 108, 108, 111>>>>,
    <<Tree, <<65, 0, 120>>>>
}

NoJob == [t |-> <<>>, p |-> <<>>]

JobPath(w) == ObjectPath(Sha1Hex(job[w].p, job[w].t))

\* Lines 108-112: the call begins; header, full_data, sha1 and path are
\* computed from the arguments.
Begin(w, t, p) ==
    /\ pc[w] = "idle"
    /\ pc' = [pc EXCEPT ![w] = "l113"]
    /\ job' = [job EXCEPT ![w] = [t |-> t, p |-> p]]
    /\ UNCHANGED <<dirs, files, seen, ret, tick, indexVars, treeVars>>

\* Line 113: if not os.path.exists(path); otherwise line 116 returns.
CheckExists(w) ==
    /\ pc[w] = "l113"
    /\ pc' = [pc EXCEPT ![w] = IF MustWrite(FS, JobPath(w), TRUE) THEN "l114" ELSE "idle"]
    /\ UNCHANGED <<dirs, files, job, seen, ret, tick, indexVars, treeVars>>

\* Line 114: os.makedirs(..., exist_ok=True)
MakeDirs(w) ==
    /\ pc[w] = "l114"
    /\ dirs' = makedirs(FS, JobPath(w)).dirs
    /\ pc' = [pc EXCEPT ![w] = "l42"]
    /\ UNCHANGED <<files, job, seen, ret, tick, indexVars, treeVars>>

\* Line 42, called from line 115: open(path, 'wb')
OpenFile(w) ==
    /\ pc[w] = "l42"
    /\ files' = open_wb(FS, JobPath(w)).files
    /\ pc' = [pc EXCEPT ![w] = "l43"]
    /\ UNCHANGED <<dirs, job, seen, ret, tick, indexVars, treeVars>>

\* Line 43 and the end of the with block; line 116 returns.
WriteData(w) ==
    /\ pc[w] = "l43"
    /\ files' = write_close(FS, JobPath(w), Compress(FullData(job[w].p, job[w].t))).files
    /\ pc' = [pc EXCEPT ![w] = "idle"]
    /\ UNCHANGED <<dirs, job, seen, ret, tick, indexVars, treeVars>>

\* The process running hash_object is killed before the call returns.
Interrupt(w) ==
    /\ pc[w] \in {"l113", "l114", "l42", "l43"}
    /\ pc' = [pc EXCEPT ![w] = "idle"]
    /\ UNCHANGED <<dirs, files, job, seen, ret, tick, indexVars, treeVars>>

\* A reader calls read_object with a whole digest.
ConcRead(t, p) ==
    /\ seen' = [t |-> t, p |-> p, out |-> read_object(FS, Sha1Hex(p, t))]
    /\ UNCHANGED <<dirs, files, pc, job, ret, tick, indexVars, treeVars>>

---------------------------------------------------------------------------
(* read_index *)

\* os.path.join('.git', 'index') does not exist.
Absent == <<-1>>

\* b'DIRC'
DIRC == <<68, 73, 82, 67>>

\* struct.unpack('!LLLLLLLLLL20sH', b) with the path added: an INDEXENTRY.
UnpackEntry(b, path) ==
    [ctime_s |-> BigEndian(PySlice(b, 0, 4)),
     ctime_n |-> BigEndian(PySlice(b, 4, 8)),
     mtime_s |-> BigEndian(PySlice(b, 8, 12)),
     mtime_n |-> BigEndian(PySlice(b, 12, 16)),
     dev |-> BigEndian(PySlice(b, 16, 20)),
     ino |-> BigEndian(PySlice(b, 20, 24)),
     mode |-> BigEndian(PySlice(b, 24, 28)),
     uid |-> BigEndian(PySlice(b, 28, 32)),
     gid |-> BigEndian(PySlice(b, 32, 36)),
     size |-> BigEndian(PySlice(b, 36, 40)),
     sha1 |-> PySlice(b, 40, 60),
     flags |-> BigEndian(PySlice(b, 60, 62)),
     path |-> path]

\* entry_len of line 72
EntryLen(path) == ((62 + Len(path) + 8) \div 8) * 8

\* The loop of lines 62-73, from offset i with the entries read so far.
RECURSIVE WalkEntries(_, _, _)
WalkEntries(entry_data, i, entries) ==
    IF ~(i + 62 < Len(entry_data)) THEN Ok(<<>>, entries)
    ELSE LET fields_end == i + 62
             path_end == Find(entry_data, 0, fields_end)
         IN  IF path_end = -1
             THEN Raise("ValueError", "subsection not found", Len(entries))
             ELSE LET path == PySlice(entry_data, fields_end, path_end)
                      entry == UnpackEntry(PySlice(entry_data, i, fields_end), Decode(path))
                  IN  WalkEntries(entry_data, i + EntryLen(path), Append(entries, entry))

\* The test of line 54: assert digest == data[:-20]
ChecksumOk(data, digest) == digest = PySliceNeg(data, 0, 20)

\* read_index() when .git/index holds file: the entries in b.
read_index(file) ==
    IF file = Absent THEN Ok(<<>>, <<>>)
    ELSE LET data == file
             digest == SHA1(PySliceNeg(data, 0, 20))
         IN  IF ~ChecksumOk(data, digest)
             THEN Raise("AssertionError", "invalid index checksum", 0)
             ELSE IF Len(PySlice(data, 0, 12)) # 12
             THEN Raise("struct.error", "unpack requires a buffer of 12 bytes", 0)
             ELSE LET signature == PySlice(data, 0, 4)
                      version == BigEndian(PySlice(data, 4, 8))
                      num_entries == BigEndian(PySlice(data, 8, 12))
                  IN  IF signature # DIRC
                      THEN Raise("AssertionError", "invalid index signature", 0)
                      ELSE IF version # 2
                      THEN Raise("AssertionError", "unknown index version", version)
                      ELSE LET walk == WalkEntries(PySliceNeg(data, 12, 20), 0, <<>>)
                           IN  IF walk.kind # "ok" THEN walk
                               ELSE IF Len(walk.b) # num_entries
                               THEN Raise("AssertionError", "len(entries) == num_entries",
                                          Len(walk.b))
                               ELSE walk

---------------------------------------------------------------------------
(* The index files of the model, written as git writes them. *)

\* An index file holds at most this many entries.
MaxEntries == 2

\* struct.pack('!L', n) and struct.pack('!H', n)
U32(n) == <<(n \div 16777216) % 256, (n \div 65536) % 256, (n \div 256) % 256, n % 256>>
U16(n) == <<(n \div 256) % 256, n % 256>>

Zeros(n) == [i \in 1..n |-> 0]

\* One entry as the file holds it: 62 bytes, the path, and 1 to 8 NULs up
\* to the next multiple of 8.
PackEntry(e) ==
    U32(e.ctime_s) \o U32(e.ctime_n) \o U32(e.mtime_s) \o U32(e.mtime_n) \o U32(e.dev)
        \o U32(e.ino) \o U32(e.mode) \o U32(e.uid) \o U32(e.gid) \o U32(e.size)
        \o e.sha1 \o U16(e.flags) \o e.path
        \o Zeros(EntryLen(e.path) - 62 - Len(e.path))

RECURSIVE PackEntries(_)
PackEntries(es) == IF es = <<>> THEN <<>> ELSE PackEntry(Head(es)) \o PackEntries(Tail(es))

IndexBody(signature, version, count, es) ==
    signature \o U32(version) \o U32(count) \o PackEntries(es)

\* "a" (one NUL of padding) and "ab.txt" (four); the digests are those of
\* blob b"hello" and blob b"".
SampleEntries == {
    [ctime_s |-> 1, ctime_n |-> 2, mtime_s |-> 3, mtime_n |-> 4, dev |-> 5, ino |-> 6,
     mode |-> 33188, uid |-> 1000, gid |-> 1000, size |-> 5,
     sha1 |-> SHA1(FullData(<<104, 101, 108, 108, 111>>, Blob)), flags |-> 1, path |-> <<97>>],
    [ctime_s |-> 7, ctime_n |-> 0, mtime_s |-> 7, mtime_n |-> 0, dev |-> 5, ino |-> 9,
     mode |-> 33261, uid |-> 0, gid |-> 0, size |-> 0,
     sha1 |-> SHA1(FullData(<<>>, Blob)), flags |-> 6,
     path |-> <<97, 98, 46, 116, 120, 116>>]
}

RECURSIVE SeqsUpTo(_, _)
SeqsUpTo(S, n) ==
    IF n = 0 THEN {<<>>}
    ELSE LET shorter == SeqsUpTo(S, n - 1)
         IN  shorter \cup {Append(s, x) : s \in shorter, x \in S}

EntryLists == SeqsUpTo(SampleEntries, MaxEntries)

\* A byte of the body with one bit flipped.
FlipBit(body, pos, bit) ==
    [body EXCEPT ![pos] = IF (@ \div bit) % 2 = 1 THEN @ - bit ELSE @ + bit]

\* The positions flipped in the entry region: in ctime_s, in the digest, in
\* the path and in the padding of the first entry.
FlipPositions == {16, 60, 75, 76}

\* Bodies whose header counts the entries held, one more, or none; with a
\* wrong signature or version; and a header followed by 8 NULs.
IndexBodies ==
    UNION {{IndexBody(DIRC, 2, count, es) : count \in {0, Len(es), Len(es) + 1}} :
            es \in EntryLists}
        \cup {IndexBody(<<68, 73, 82, 88>>, 2, Len(es), es) : es \in SeqsUpTo(SampleEntries, 1)}
        \cup {IndexBody(DIRC, 3, Len(es), es) : es \in SeqsUpTo(SampleEntries, 1)}
        \cup {IndexBody(DIRC, 2, 0, <<>>) \o Zeros(8)}

\* The trailer of a file git wrote, and a trailer that is not the checksum.
GoodTrailer(body) == SHA1(body)
BadTrailer == Zeros(20)

\* The files: each body with its checksum and with a wrong trailer; a file
\* git wrote with one bit of its entry region flipped afterwards; files
\* shorter than 32 bytes.
IndexFiles ==
    {body \o GoodTrailer(body) : body \in IndexBodies}
        \cup {body \o BadTrailer : body \in IndexBodies}
        \cup {FlipBit(body, pos, 1) \o GoodTrailer(body) :
                body \in {IndexBody(DIRC, 2, 1, <<e>>) : e \in SampleEntries},
                pos \in FlipPositions}
        \cup {<<>>, DIRC, IndexBody(DIRC, 2, 0, <<>>) \o Zeros(19)}

\* Some process replaces .git/index.
PutIndex(file) ==
    /\ indexFile' = file
    /\ UNCHANGED <<indexRet, storeVars, concVars, treeVars>>

ReadIndex ==
    /\ indexRet' = [data |-> indexFile, out |-> read_index(indexFile)]
    /\ UNCHANGED <<indexFile, storeVars, concVars, treeVars>>

---------------------------------------------------------------------------
(* read_tree(data=...) *)

\* range(1000) of line 185: the most entries one call decodes.
TreeLoopLimit == 1000

\* The state of the loop of lines 185-193: the offset i, the entries decoded
\* so far, and whether the loop still runs, has left by break, or has raised.
TreeStart == [i |-> 0, entries |-> <<>>, at |-> "loop", err |-> NoCall]

\* One iteration of the loop, lines 186-193.
TreeStep(data, s) ==
    IF s.at # "loop" THEN s
    ELSE LET end == Find(data, 0, s.i)
         IN  IF end = -1 THEN [s EXCEPT !.at = "break"]
             ELSE LET toks == PySplit(Decode(PySlice(data, s.i, end)))
                  IN  IF Len(toks) # 2
                      THEN [s EXCEPT !.at = "raise",
                                     !.err = Raise("ValueError", "unpack", Len(toks))]
                      ELSE IF ~IsInt(toks[1], 8)
                      THEN [s EXCEPT !.at = "raise",
                                     !.err = Raise("ValueError", "invalid literal for int()", 0)]
                      ELSE LET mode == IntVal(toks[1], 8)
                               path == toks[2]
                               digest == PySlice(data, end + 1, end + 21)
                           IN  [s EXCEPT !.i = end + 1 + 20,
                                         !.entries = Append(@, <<mode, path, HexStr(digest)>>)]

\* n iterations of the loop, one after the other: the first half of them,
\* and the rest unless the loop has ended.
RECURSIVE TreeSteps(_, _, _)
TreeSteps(data, s, n) ==
    IF n = 0 THEN s
    ELSE IF n = 1 THEN TreeStep(data, s)
    ELSE LET half == TreeSteps(data, s, n \div 2)
         IN  IF half.at # "loop" THEN half
             ELSE TreeSteps(data, half, n - (n \div 2))

\* read_tree(data=data): the (mode, path, sha1) tuples in b.  After
\* range(1000) is used up, line 194 returns what was decoded.
read_tree(data) ==
    LET s == TreeSteps(data, TreeStart, TreeLoopLimit)
    IN  IF s.at = "raise" THEN s.err ELSE Ok(<<>>, s.entries)

---------------------------------------------------------------------------
(* The tree payloads of the model, written as git writes them. *)

\* A payload is built from at most this many records (the payload that
\* passes the loop's limit apart).
MaxRecords == 2
\* At most this many bytes are cut off the end of a payload.
MaxCut == 2

\* One record: "<octal mode> <path>\0<20 digest bytes>"
PackRecord(r) == r.mode \o <<32>> \o r.path \o <<0>> \o r.digest

RECURSIVE PackRecords(_)
PackRecords(rs) ==
    IF rs = <<>> THEN <<>>
    ELSE IF Len(rs) = 1 THEN PackRecord(rs[1])
    ELSE LET h == Len(rs) \div 2
         IN  PackRecords(SubSeq(rs, 1, h)) \o PackRecords(SubSeq(rs, h + 1, Len(rs)))

\* "100644 a.txt" with 20 NULs as digest; "40000 d" with the digest of tree
\* b"" (4b825dc6...), which has no NUL; "100755 a b", a path with a space,
\* with a digest whose bytes include NUL.
RecA == [mode |-> <<49, 48, 48, 54, 52, 52>>, path |-> <<97, 46, 116, 120, 116>>,
         digest |-> Zeros(20)]
RecD == [mode |-> <<52, 48, 48, 48, 48>>, path |-> <<100>>,
         digest |-> SHA1(FullData(<<>>, Tree))]
RecS == [mode |-> <<49, 48, 48, 55, 53, 53>>, path |-> <<97, 32, 98>>,
         digest |-> <<1, 0, 2, 0, 3, 0, 4, 0, 5, 0, 6, 0, 7, 0, 8, 0, 9, 0, 10, 0>>]
SampleRecords == {RecA, RecD, RecS}

\* n copies of a record.
Repeat(r, n) == [k \in 1..n |-> r]

\* What a payload is made of: its records; the number of bytes cut off its
\* end; the bytes (without NUL) that follow its last record.  The payloads
\* are the empty one, those of 1..MaxRecords records, whole or damaged, and
\* one of one record more than the loop's limit.
TreeInputs ==
    {[recs |-> rs, cut |-> c, junk |-> j] :
        rs \in SeqsUpTo(SampleRecords, MaxRecords) \ {<<>>}, c \in 0..MaxCut,
        j \in {<<>>, <<120>>}}
        \cup {[recs |-> <<>>, cut |-> 0, junk |-> <<>>]}
        \cup {[recs |-> Repeat(RecD, TreeLoopLimit + 1), cut |-> 0, junk |-> <<>>]}

TreeBytes(in) ==
    LET whole == PackRecords(in.recs) \o in.junk
    IN  PySlice(whole, 0, Max(Len(whole) - in.cut, 0))

\* A caller holds the payload in.
GiveTree(in) ==
    /\ treeData' = in
    /\ UNCHANGED <<treeRet, storeVars, concVars, indexVars>>

ReadTree ==
    /\ treeRet' = [in |-> treeData, out |-> read_tree(TreeBytes(treeData))]
    /\ UNCHANGED <<treeData, storeVars, concVars, indexVars>>

---------------------------------------------------------------------------
(* The specifications.  init() has run: .git/objects exists and is empty. *)

StoreInit ==
    /\ dirs = EmptyFS.dirs
    /\ files = EmptyFS.files
    /\ ret = Call("none", <<>>, <<>>, FALSE, <<>>, FALSE, NoCall)
    /\ tick = 0

ConcInit ==
    /\ pc = [w \in Writers |-> "idle"]
    /\ job = [w \in Writers |-> NoJob]
    /\ seen = [t |-> <<>>, p |-> <<>>, out |-> NoCall]

IndexInit ==
    /\ indexFile = Absent
    /\ indexRet = [data |-> Absent, out |-> NoCall]

TreeInit ==
    /\ treeData = [recs |-> <<>>, cut |-> 0, junk |-> <<>>]
    /\ treeRet = [in |-> [recs |-> <<>>, cut |-> 0, junk |-> <<>>], out |-> NoCall]

Init == StoreInit /\ ConcInit /\ IndexInit /\ TreeInit

\* The object store, one call after the other.
Next ==
    \/ \E o \in Objects, write \in BOOLEAN : HashObject(o[1], o[2], write)
    \/ \E prefix \in QueryPrefixes : FindObject(prefix)
    \/ \E prefix \in QueryPrefixes : ReadObject(prefix)

Spec == Init /\ [][Next]_vars

\* The object store with two writers and a reader running at the same time.
NextConc ==
    \/ \E w \in Writers, o \in ConcObjects : Begin(w, o[1], o[2])
    \/ \E w \in Writers : CheckExists(w)
    \/ \E w \in Writers : MakeDirs(w)
    \/ \E w \in Writers : OpenFile(w)
    \/ \E w \in Writers : WriteData(w)
    \/ \E w \in Writers : Interrupt(w)
    \/ \E o \in ConcObjects : ConcRead(o[1], o[2])

SpecConc == Init /\ [][NextConc]_vars

\* read_index on the index files of the model.
NextIndex ==
    \/ \E file \in IndexFiles \cup {Absent} : PutIndex(file)
    \/ ReadIndex

SpecIndex == Init /\ [][NextIndex]_vars

\* read_tree on the tree payloads of the model.
NextTree ==
    \/ \E in \in TreeInputs : GiveTree(in)
    \/ ReadTree

SpecTree == Init /\ [][NextTree]_vars

---------------------------------------------------------------------------
(* What the claims speak of. *)

\* The digests the store holds: shard and name of every object file.
StoredDigests(fs) == {q[1] \o q[2] : q \in DOMAIN fs.files}

\* The stored digests that start with prefix.
Matches(fs, prefix) == {d \in StoredDigests(fs) : StartsWith(d, prefix)}

\* The errors the specification names, as the code raises them.
ObjectNotFound == Raise("ValueError", "object not found", 0)
AmbiguousPrefix(count) == Raise("ValueError", "multiple objects", count)
ChecksumMismatch == Raise("AssertionError", "invalid index checksum", 0)

---------------------------------------------------------------------------
(* The object store, one call after the other. *)

\* C1: from every reachable store, for every type and payload (the empty
\* one and those holding NUL included), hash_object followed by read_object
\* of the digest it returned gives back exactly the type and the payload.
C1_RoundTrip ==
    \A t \in Types, p \in Payloads :
        LET w == hash_object(FS, p, t, TRUE)
        IN  read_object(w.fs, w.sha1) = Ok(t, p)

\* A read by whole digest has returned the tree b"A\x00x", written before.
C1_Witness ==
    /\ ret.op = "read_object"
    /\ Len(ret.prefix) = 40
    /\ ret.out = Ok(Tree, <<65, 0, 120>>)
    /\ Cardinality(DOMAIN files) >= 2

\* C2: a second hash_object with the same type and payload returns the same
\* digest, finds exactly one file for it, and leaves the store as it was:
\* write_file is not called, no file or directory appears, changes or goes.
C2_Idempotent ==
    [][(/\ ret.op = "hash_object" /\ ret.write
        /\ ret'.op = "hash_object" /\ ret'.write
        /\ tick' # tick
        /\ ret'.t = ret.t /\ ret'.p = ret.p)
       => (/\ ret'.out = ret.out
           /\ ~ret'.wrote
           /\ files' = files
           /\ dirs' = dirs
           /\ Cardinality({q \in DOMAIN files' : q[1] \o q[2] = ret'.out.a}) = 1)]_vars

\* hash_object has been called for an object whose file was already there.
C2_Witness ==
    /\ ret.op = "hash_object" /\ ret.write /\ ~ret.wrote
    /\ ObjectPath(ret.out.a) \in DOMAIN files

\* C4 as claimed: a prefix of two or more characters that no stored digest
\* starts with makes find_object and read_object fail with ObjectNotFound,
\* whether or not a shard is named by its first two characters.
C4_NotFound ==
    (/\ ret.op \in {"find_object", "read_object"}
     /\ Len(ret.prefix) >= 2
     /\ Matches(FS, ret.prefix) = {})
        => ret.out = ObjectNotFound

\* C5: a prefix that exactly one stored digest starts with resolves to that
\* object's path (a whole digest to itself); a prefix that two or more start
\* with fails with AmbiguousPrefix carrying their number.
C5_Resolve ==
    \A prefix \in Prefixes :
        LET m == Matches(FS, prefix)
            r == find_object(FS, prefix)
        IN  /\ Cardinality(m) = 1 => r.kind = "ok" /\ r.a \o r.b \in m
            /\ Cardinality(m) >= 2 => r = AmbiguousPrefix(Cardinality(m))
            /\ prefix \in StoredDigests(FS) => r = Ok(ObjectPath(prefix)[1], ObjectPath(prefix)[2])

\* find_object has failed on a prefix that three stored objects share, in a
\* store where another prefix resolves to one object.
C5_Witness ==
    /\ ret.op = "find_object"
    /\ ret.out = AmbiguousPrefix(3)
    /\ \E prefix \in Prefixes : Cardinality(Matches(FS, prefix)) = 1 /\ Len(prefix) < 40

---------------------------------------------------------------------------
(* The object store with writers that overlap or are interrupted. *)

\* The bytes of an object file are a whole object: they decompress to a
\* header and a payload of the length the header declares.
WholeObject(bytes) ==
    LET z == Decompress(bytes)
    IN  z.kind = "ok" /\ Unframe(z.b).kind = "ok"

\* C3 as claimed: in every state, a step into a write included, every file at
\* an object path holds a whole object, and a reader never gets anything else.
C3_Atomic ==
    /\ \A path \in DOMAIN files : WholeObject(files[path])
    /\ seen.out.kind \in {"none", "ok", "FileNotFoundError", "ValueError"}

---------------------------------------------------------------------------
(* read_index *)

\* What the specification's decoder makes of a file whose checksum holds.
IndexCount(data) == BigEndian(PySlice(data, 8, 12))
IndexWalk(data) == WalkEntries(PySliceNeg(data, 12, 20), 0, <<>>)

\* The trailing 20 bytes are the SHA-1 of all bytes before them.
TrailerHolds(data) == Len(data) >= 32 /\ PyTail(data, 20) = SHA1(PySliceNeg(data, 0, 20))

\* The index file invariant: trailer, signature, version, count.
ValidIndex(data) ==
    /\ TrailerHolds(data)
    /\ PySlice(data, 0, 4) = DIRC
    /\ BigEndian(PySlice(data, 4, 8)) = 2
    /\ IndexWalk(data).kind = "ok"
    /\ Len(IndexWalk(data).b) = IndexCount(data)

\* read_index() has read the file now in place.
IndexWasRead == indexRet.out.kind # "none" /\ indexRet.data = indexFile /\ indexFile # Absent

\* C6 as claimed: the read fails with ChecksumMismatch when the trailer is not
\* the SHA-1 of the bytes before it, and a file that satisfies the index file
\* invariant decodes to its entries.
C6_Checksum ==
    IndexWasRead =>
        /\ (Len(indexFile) >= 32 /\ ~TrailerHolds(indexFile)) => indexRet.out = ChecksumMismatch
        /\ ValidIndex(indexFile) => indexRet.out = Ok(<<>>, IndexWalk(indexFile).b)

\* C7 as claimed: a file with a good trailer, signature and version whose
\* header count differs from the number of entries in it fails with
\* EntryCountMismatch; a returned sequence has the length the header gives.
C7_EntryCount ==
    IndexWasRead =>
        /\ (/\ TrailerHolds(indexFile)
            /\ PySlice(indexFile, 0, 4) = DIRC
            /\ BigEndian(PySlice(indexFile, 4, 8)) = 2
            /\ IndexWalk(indexFile).kind = "ok"
            /\ Len(IndexWalk(indexFile).b) # IndexCount(indexFile))
           => (/\ indexRet.out.kind = "AssertionError"
               /\ indexRet.out.msg = "len(entries) == num_entries")
        /\ indexRet.out.kind = "ok" => Len(indexRet.out.b) = IndexCount(indexFile)

---------------------------------------------------------------------------
(* read_tree *)

\* The entry a record stands for: mode in base 8, path, digest in hex.
EntryOf(r) == <<IntVal(r.mode, 8), r.path, HexStr(r.digest)>>

TreeWasRead == treeRet.out.kind # "none"

\* A payload made of whole records and nothing else.
WellFormed(in) == TreeBytes(in) = PackRecords(in.recs)

\* C8 as claimed: a payload of whole records decodes to one entry per record,
\* in order, the path being all that stands between the first space and the
\* NUL, also when the path holds a space or the digest holds NUL.
C8_FirstSpace ==
    (TreeWasRead /\ WellFormed(treeRet.in) /\ Len(treeRet.in.recs) <= TreeLoopLimit)
        => treeRet.out = Ok(<<>>, [k \in 1..Len(treeRet.in.recs) |-> EntryOf(treeRet.in.recs[k])])

\* C9 as claimed: a payload of more whole records than the loop's limit is
\* refused; what is returned is never a cut-off part of the payload's entries.
C9_Limit ==
    (TreeWasRead /\ WellFormed(treeRet.in) /\ Len(treeRet.in.recs) > TreeLoopLimit)
        => treeRet.out.kind # "ok"

\* C10 as claimed: every entry returned carries a digest of 40 hex characters;
\* a payload whose last record is cut short, or that goes on after its last
\* record, is refused.
C10_NoHalfDecoded ==
    TreeWasRead =>
        /\ treeRet.out.kind = "ok" =>
              \A k \in 1..Len(treeRet.out.b) : Len(treeRet.out.b[k][3]) = 40
        /\ ~WellFormed(treeRet.in) => treeRet.out.kind # "ok"

=============================================================================
